---- MODULE Spec2Model ----
(***************************************************************************)
(* JobPulse: the search orchestrator (scraper.search_jobs), the transport  *)
(* (http_client: rate_limit, get_http_client, close_http_client and the    *)
(* tenacity-wrapped api_get) and the result model (models.SearchResults).  *)
(*                                                                         *)
(* Time is the wall clock time.time() counted in ticks; TicksPerSecond     *)
(* ticks make one second.  Straight-line code takes no time: the clock     *)
(* advances only while every caller is blocked (idle, in time.sleep, in a  *)
(* backoff wait, or waiting for the response of client.get).  The state    *)
(* holds no absolute time but the differences the code computes: the time  *)
(* elapsed since _last_request_time was set, the time a sleep has left.    *)
(*                                                                         *)
(* Python strings are sequences of one-character strings.  A decoded JSON  *)
(* value is a tagged record (JV below), so that a value of the wrong type  *)
(* is representable and the type checks of the code can be refuted.        *)
(*                                                                         *)
(* The pure functions (the methods of SearchResults, build_search_url,     *)
(* locations.get_city_id and get_city_name) are also called directly, on   *)
(* arguments drawn from finite sets, under LibSpec; the URL is the string  *)
(* the f-string of build_search_url produces, character by character.      *)
(*                                                                         *)
(* GuiSpec is the desktop UI around search_jobs (gui.py: the search        *)
(* handlers, their background thread, pagination and page size, and        *)
(* window.app_state); StoreSpec is the saved-jobs table (orm.save_job and  *)
(* the save and remove handlers of gui.py).                                *)
(***************************************************************************)
EXTENDS Integers, Sequences, FiniteSets, TLC

\* ---------------------------------------------------------------- bounds
\* clock resolution: ticks per second
TicksPerSecond == 4
\* search_jobs invocations started in one behaviour (all callers together)
MaxCalls == 2
\* longest time, in ticks, client.get waits for its response or its failure
MaxLatency == 1

\* ------------------------------------------------- config.py constants
MAX_RETRIES == 3
RETRY_MIN_WAIT == 1 * TicksPerSecond
RETRY_MAX_WAIT == 10 * TicksPerSecond
\* 0.5 seconds
MIN_REQUEST_INTERVAL == TicksPerSecond \div 2

\* the callers a behaviour may have: the GUI's background search threads
Threads == {1, 2}

\* Elapsed times are kept up to LongAgo: the code only asks whether an
\* elapsed time is below MIN_REQUEST_INTERVAL, so every longer one acts alike
LongAgo == MIN_REQUEST_INTERVAL + 1

\* --------------------------------------------------------- Python strings
Whitespace == {" "}

RECURSIVE LStrip(_)
LStrip(s) == IF s # <<>> /\ Head(s) \in Whitespace THEN LStrip(Tail(s)) ELSE s

RECURSIVE RStrip(_)
RStrip(s) ==
  IF s # <<>> /\ s[Len(s)] \in Whitespace THEN RStrip(SubSeq(s, 1, Len(s) - 1)) ELSE s

\* str.strip()
Strip(s) == RStrip(LStrip(s))

UpperCase == <<"A", "B", "C", "D", "E", "F", "G", "H", "I", "J", "K", "L", "M",
               "N", "O", "P", "Q", "R", "S", "T", "U", "V", "W", "X", "Y", "Z">>
LowerCase == <<"a", "b", "c", "d", "e", "f", "g", "h", "i", "j", "k", "l", "m",
               "n", "o", "p", "q", "r", "s", "t", "u", "v", "w", "x", "y", "z">>
\* the lower-case letter of each upper-case letter
LowerOf ==
  [c \in {UpperCase[i] : i \in 1..26} |-> LowerCase[CHOOSE i \in 1..26 : UpperCase[i] = c]]
LowerChar(c) == IF c \in DOMAIN LowerOf THEN LowerOf[c] ELSE c

\* str.lower()
Lower(s) == [i \in 1..Len(s) |-> LowerChar(s[i])]

\* ------------------------------------------------------ decoded JSON values
\* t is the JSON type; s is the text of a string, n the value of a number or
\* of a boolean (1 = true).  "absent" marks a key the object does not have.
JV(t, s, n) == [t |-> t, s |-> s, n |-> n]
Absent  == JV("absent", <<>>, 0)
Null    == JV("null", <<>>, 0)
Str(s)  == JV("str", s, 0)
Num(n)  == JV("int", <<>>, n)
Bool(b) == JV("bool", <<>>, IF b THEN 1 ELSE 0)

\* Python truthiness of a decoded value (dict.get of an absent key is None)
Truthy(v) ==
  CASE v.t = "absent" -> FALSE
    [] v.t = "null"   -> FALSE
    [] v.t = "str"    -> v.s # <<>>
    [] v.t = "int"    -> v.n # 0
    [] v.t = "bool"   -> v.n = 1

sSuccess == <<"s", "u", "c", "c", "e", "s", "s">>
sSuccessCap == <<"S", "u", "c", "c", "e", "s", "s">>
sNoJobs == <<"n", "o", "n", "e">>
sOne == <<"1">>
sZero == <<"0">>

sUnknownApiError == <<"U", "n", "k", "n", "o", "w", "n", " ", "A", "P", "I", " ",
                      "e", "r", "r", "o", "r">>
sJobA == <<"7">>
sJobB == <<"8", " ">>
sJobC == <<"9">>
sTitle == <<"d", "e", "v">>
sCompany == <<"c", "o">>

\* one element of data / premiumData as decoded; t = "dict" for a JSON object
Item(jobid, title, company, online) ==
  [t |-> "dict", Jobid |-> jobid, jobTitle |-> title, companyName |-> company,
   OnlineJob |-> online]
NonDictItem == [t |-> "str", Jobid |-> Absent, jobTitle |-> Absent,
                companyName |-> Absent, OnlineJob |-> Absent]

\* the value under "data" or "premiumData"
ListOf(items) == [t |-> "list", items |-> items]
NoList == [t |-> "absent", items |-> <<>>]
NullList == [t |-> "null", items |-> <<>>]

\* the value under "common"
Common(found, pages, vacancies) ==
  [t |-> "dict", total_records_found |-> found, totalpages |-> pages,
   total_vacancies |-> vacancies]
NoCommon == [t |-> "absent", total_records_found |-> Absent, totalpages |-> Absent,
             total_vacancies |-> Absent]

\* a decoded response body; t = "dict" for a JSON object
Body(statuscode, message, common, data, premium) ==
  [t |-> "dict", statuscode |-> statuscode, message |-> message, common |-> common,
   data |-> data, premiumData |-> premium]
NonDictBody(t) ==
  [t |-> t, statuscode |-> Absent, message |-> Absent, common |-> NoCommon,
   data |-> NoList, premiumData |-> NoList]

GoodItem(jobid, online) == Item(Str(jobid), Str(sTitle), Str(sCompany), online)
FullCommon == Common(Num(37), Num(8), Num(50))
EmptyCommon == Common(Absent, Absent, Absent)

\* the decoded bodies the upstream may answer with
Bodies ==
  { \* 2 regular + 1 premium listing, success
    Body(Str(sOne), Str(sSuccessCap), FullCommon,
         ListOf(<<GoodItem(sJobA, Bool(TRUE)), GoodItem(sJobB, Absent)>>),
         ListOf(<<GoodItem(sJobC, Bool(FALSE))>>)),
    \* well-formed, not a success: message differs
    Body(Str(sOne), Str(sNoJobs), EmptyCommon, NoList, NoList),
    \* well-formed, not a success: empty status code
    Body(Str(<<>>), Str(sNoJobs), FullCommon, ListOf(<<>>), NoList),
    \* well-formed, status code "0"
    Body(Str(sZero), Str(sNoJobs), EmptyCommon, ListOf(<<>>), ListOf(<<>>)),
    \* status code "0", nothing else
    Body(Str(sZero), Absent, NoCommon, NoList, NoList),
    \* status code of the wrong type
    Body(Num(0), Str(sNoJobs), FullCommon, NoList, NoList),
    Body(Num(1), Str(sSuccess), FullCommon, NoList, NoList),
    Body(Null, Str(sSuccess), FullCommon, NoList, NoList),
    \* required fields missing
    Body(Absent, Str(sSuccess), FullCommon, NoList, NoList),
    Body(Str(sOne), Absent, FullCommon, NoList, NoList),
    Body(Str(sOne), Str(sSuccess), NoCommon, NoList, NoList),
    \* message of the wrong type
    Body(Str(sOne), Num(1), FullCommon, NoList, NoList),
    \* listings of the wrong shape
    Body(Str(sOne), Str(sSuccess), FullCommon, NullList, NoList),
    Body(Str(sOne), Str(sSuccess), FullCommon, ListOf(<<NonDictItem>>), NoList),
    Body(Str(sOne), Str(sSuccess), FullCommon,
         ListOf(<<Item(Absent, Str(sTitle), Str(sCompany), Absent)>>), NoList),
    Body(Str(sOne), Str(sSuccess), FullCommon, NoList,
         ListOf(<<Item(Str(sJobA), Num(3), Str(sCompany), Absent)>>)),
    \* a listing with an empty identifier
    Body(Str(sOne), Str(sSuccess), FullCommon,
         ListOf(<<GoodItem(<<" ">>, Absent)>>), NoList),
    \* valid JSON that is no object
    NonDictBody("list"),
    NonDictBody("null") }

sSuccessUpper == <<"S", "U", "C", "C", "E", "S", "S">>
sSuccessPadded == <<"s", "u", "c", "c", "e", "s", "s", " ">>
sOnePadded == <<"1", " ">>

\* the values a body may have under "data" and under "premiumData"
Listings ==
  { NoList, ListOf(<<>>),
    ListOf(<<GoodItem(sJobA, Bool(TRUE)), GoodItem(sJobB, Absent)>>),
    ListOf(<<GoodItem(sJobB, Absent), GoodItem(sJobA, Bool(TRUE))>>),
    ListOf(<<GoodItem(sJobC, Bool(FALSE))>>),
    ListOf(<<GoodItem(sJobA, Bool(TRUE)), GoodItem(sJobA, Bool(TRUE))>>) }

\* the values a body may have under "common"
Commons ==
  { FullCommon, EmptyCommon, NoCommon,
    Common(Str(<<"3", "7">>), Absent, Num(0)),
    Common(Absent, Num(8), Absent) }

\* bodies in which every part is either of the right type or absent
SparseBodies ==
  { Body(Str(code), Str(message), common, data, premium) :
      code \in {sOne, sZero, <<>>, sOnePadded},
      message \in {sSuccess, sSuccessCap, sSuccessUpper, sSuccessPadded, sNoJobs},
      common \in Commons, data \in Listings, premium \in Listings }

\* the decoded bodies application code may construct a SearchResults from
PageBodies == Bodies \cup SparseBodies

\* ------------------------------------------------- models.py (pydantic)
Digits == {"0", "1", "2", "3", "4", "5", "6", "7", "8", "9"}
DigitValue == [c \in Digits |->
  CASE c = "0" -> 0 [] c = "1" -> 1 [] c = "2" -> 2 [] c = "3" -> 3 [] c = "4" -> 4
    [] c = "5" -> 5 [] c = "6" -> 6 [] c = "7" -> 7 [] c = "8" -> 8 [] c = "9" -> 9]

RECURSIVE ParseDigits(_)
ParseDigits(s) ==
  IF s = <<>> THEN 0 ELSE 10 * ParseDigits(SubSeq(s, 1, Len(s) - 1)) + DigitValue[s[Len(s)]]

\* a `str` field: only a JSON string validates
StrOK(v) == v.t = "str"

\* an `int` field: a number, a boolean or a string of digits validates
IntOK(v) ==
  \/ v.t \in {"int", "bool"}
  \/ v.t = "str" /\ v.s # <<>> /\ \A i \in 1..Len(v.s) : v.s[i] \in Digits
IntOf(v) == IF v.t = "str" THEN ParseDigits(v.s) ELSE v.n

\* the strings a `bool` field takes for True and for False, in lower case
TrueStrings == {<<"1">>, <<"o", "n">>, <<"t">>, <<"t", "r", "u", "e">>, <<"y">>,
                <<"y", "e", "s">>}
FalseStrings == {<<"0">>, <<"o", "f", "f">>, <<"f">>, <<"f", "a", "l", "s", "e">>, <<"n">>,
                 <<"n", "o">>}

\* a `bool` field: a boolean, the number 0 or 1, or one of those strings
BoolOK(v) ==
  \/ v.t = "bool"
  \/ v.t = "int" /\ v.n \in {0, 1}
  \/ v.t = "str" /\ Lower(v.s) \in TrueStrings \cup FalseStrings
BoolOf(v) == IF v.t = "str" THEN Lower(v.s) \in TrueStrings ELSE v.n = 1

\* SearchResult: Jobid, jobTitle and companyName are required, OnlineJob
\* defaults to False; str_strip_whitespace strips the strings
SearchResultValid(item) ==
  /\ item.t = "dict"
  /\ StrOK(item.Jobid) /\ StrOK(item.jobTitle) /\ StrOK(item.companyName)
  /\ item.OnlineJob.t = "absent" \/ BoolOK(item.OnlineJob)
SearchResult(item) ==
  [Jobid |-> Strip(item.Jobid.s), jobTitle |-> Strip(item.jobTitle.s),
   companyName |-> Strip(item.companyName.s),
   OnlineJob |-> IF item.OnlineJob.t = "absent" THEN FALSE ELSE BoolOf(item.OnlineJob)]

\* List[SearchResult] with default_factory=list
ListValid(l) ==
  \/ l.t = "absent"
  \/ l.t = "list" /\ \A i \in 1..Len(l.items) : SearchResultValid(l.items[i])
ListParsed(l) ==
  IF l.t = "absent" THEN <<>> ELSE [i \in 1..Len(l.items) |-> SearchResult(l.items[i])]

\* CommonFilters: every count defaults to 0
CountValid(v) == v.t = "absent" \/ IntOK(v)
CountOf(v) == IF v.t = "absent" THEN 0 ELSE IntOf(v)
CommonFiltersValid(c) ==
  /\ c.t = "dict"
  /\ CountValid(c.total_records_found) /\ CountValid(c.totalpages)
  /\ CountValid(c.total_vacancies)
CommonFilters(c) ==
  [total_records_found |-> CountOf(c.total_records_found),
   totalpages |-> CountOf(c.totalpages), total_vacancies |-> CountOf(c.total_vacancies)]

\* SearchResults(**body) for a body that is a dict: message, statuscode and
\* common are required
SearchResultsValid(body) ==
  /\ StrOK(body.message) /\ StrOK(body.statuscode)
  /\ CommonFiltersValid(body.common)
  /\ ListValid(body.data) /\ ListValid(body.premiumData)
SearchResults(body) ==
  [message |-> body.message.s, statuscode |-> body.statuscode.s,
   data |-> ListParsed(body.data), premiumData |-> ListParsed(body.premiumData),
   common |-> CommonFilters(body.common)]

NoPage == [message |-> <<>>, statuscode |-> <<>>, data |-> <<>>, premiumData |-> <<>>,
           common |-> [total_records_found |-> 0, totalpages |-> 0, total_vacancies |-> 0]]

\* as all_jobs, the premium listings first
all_jobsPremiumFirst(page) == page.premiumData \o page.data

\* self.data + self.premiumData
all_jobs(page) == page.data \o page.premiumData

\* as total_results, taking the count the upstream reports
total_resultsReported(page) == page.common.total_records_found

\* len(self.data) + len(self.premiumData)
total_results(page) == Len(page.data) + Len(page.premiumData)

\* as is_success, content with either field
is_successEither(page) == page.statuscode = sOne \/ Lower(page.message) = sSuccess

\* self.statuscode == "1" and self.message.lower() == "success"
is_success(page) == page.statuscode = sOne /\ Lower(page.message) = sSuccess

\* ------------------------------------------------------------ exceptions
\* type is the Python class raised; origin names the raise statement;
\* detail is the value formatted into the message
Exc(type, origin, detail) == [type |-> type, origin |-> origin, detail |-> detail]
NoExc == Exc("none", "none", Absent)

\* the classes an exception of each type is an instance of
Bases(type) ==
  CASE type = "TimeoutException" ->
         {"TimeoutException", "TransportError", "RequestError", "HTTPError", "Exception"}
    [] type = "ConnectError" ->
         {"ConnectError", "NetworkError", "TransportError", "RequestError", "HTTPError",
          "Exception"}
    [] type = "HTTPStatusError" -> {"HTTPStatusError", "HTTPError", "Exception"}
    [] type = "ValidationError" -> {"ValidationError", "ValueError", "Exception"}
    [] OTHER -> {type, "Exception"}
IsInstance(exc, class) == class \in Bases(exc.type)

\* ------------------------------------------------- http_client.py: api_get
\* what client.get(url) ends with: an exception of httpx, or a response
Timeout == [kind |-> "timeout", body |-> NonDictBody("null")]
NetworkError == [kind |-> "network", body |-> NonDictBody("null")]
HttpErrorStatus == [kind |-> "status", body |-> NonDictBody("null")]
InvalidJson == [kind |-> "badjson", body |-> NonDictBody("null")]
Json(body) == [kind |-> "json", body |-> body]
NoResponse == [kind |-> "none", body |-> NonDictBody("null")]
Responses == {Timeout, NetworkError, HttpErrorStatus, InvalidJson} \cup {Json(b) : b \in Bodies}

\* as ApiStatusError, without the truth test of status_code
ApiStatusErrorAnyValue(data) ==
  data.t = "dict" /\ data.statuscode # Str(sOne)

\* `if status_code and status_code != "1"` on a dict body
ApiStatusError(data) ==
  data.t = "dict" /\ Truthy(data.statuscode) /\ data.statuscode # Str(sOne)

\* data.get("message", "Unknown API error")
ApiErrorMessage(data) ==
  IF data.message.t = "absent" THEN Str(sUnknownApiError) ELSE data.message

\* the body of api_get from client.get on: the exception it raises, or NoExc
\* when it returns resp.body
ApiGetRaises(resp) ==
  CASE resp.kind = "timeout" -> Exc("TimeoutException", "transport", Absent)
    [] resp.kind = "network" -> Exc("ConnectError", "transport", Absent)
    [] resp.kind = "status"  -> Exc("HTTPStatusError", "transport", Absent)
    [] resp.kind = "badjson" -> Exc("ValueError", "json", Absent)
    [] resp.kind = "json" ->
         IF ApiStatusError(resp.body)
           THEN Exc("RuntimeError", "api", ApiErrorMessage(resp.body))
           ELSE NoExc

\* as RetryIf, retrying on every exception
RetryIfAnyException(exc) == IsInstance(exc, "Exception")

\* as RetryIf, retrying request errors only (a status error is none)
RetryIfRequestError(exc) == IsInstance(exc, "RequestError") \/ IsInstance(exc, "TimeoutException")

\* retry=retry_if_exception_type((httpx.HTTPError, httpx.TimeoutException))
RetryIf(exc) == IsInstance(exc, "HTTPError") \/ IsInstance(exc, "TimeoutException")

\* as StopAfterAttempt, one attempt short
StopOneAttemptEarly(attempt_number) == attempt_number >= MAX_RETRIES - 1

\* as StopAfterAttempt, one attempt late
StopOneAttemptLate(attempt_number) == attempt_number >= MAX_RETRIES + 1

\* stop=stop_after_attempt(MAX_RETRIES)
StopAfterAttempt(attempt_number) == attempt_number >= MAX_RETRIES

RECURSIVE Pow2(_)
Pow2(k) == IF k <= 0 THEN 1 ELSE 2 * Pow2(k - 1)
Min(a, b) == IF a <= b THEN a ELSE b
Max(a, b) == IF a >= b THEN a ELSE b

\* as WaitExponential, doubling from the first attempt on
WaitExponentialFromTwo(attempt_number) ==
  Max(0, Min(RETRY_MIN_WAIT * Pow2(attempt_number), RETRY_MAX_WAIT))

\* wait=wait_exponential(multiplier=RETRY_MIN_WAIT, max=RETRY_MAX_WAIT)
WaitExponential(attempt_number) ==
  Max(0, Min(RETRY_MIN_WAIT * Pow2(attempt_number - 1), RETRY_MAX_WAIT))

\* ----------------------------------------------------------- locations.py
\* the static table, in its order
CITY_ID_MAP ==
  << [id |-> <<"1", "0", "0", "3">>, name |-> <<"D", "h", "a", "k", "a", " ", "D", "i", "v", "i", "s", "i", "o", "n">>],
     [id |-> <<"1", "4">>, name |-> <<"D", "h", "a", "k", "a">>],
     [id |-> <<"1", "6">>, name |-> <<"F", "a", "r", "i", "d", "p", "u", "r">>],
     [id |-> <<"1", "9">>, name |-> <<"G", "a", "z", "i", "p", "u", "r">>],
     [id |-> <<"2", "0">>, name |-> <<"G", "o", "p", "a", "l", "g", "a", "n", "j">>],
     [id |-> <<"2", "9">>, name |-> <<"K", "i", "s", "h", "o", "r", "e", "g", "a", "n", "j">>],
     [id |-> <<"3", "4">>, name |-> <<"M", "a", "d", "a", "r", "i", "p", "u", "r">>],
     [id |-> <<"3", "6">>, name |-> <<"M", "a", "n", "i", "k", "g", "a", "n", "j">>],
     [id |-> <<"3", "9">>, name |-> <<"M", "u", "n", "s", "h", "i", "g", "a", "n", "j">>],
     [id |-> <<"4", "3">>, name |-> <<"N", "a", "r", "a", "y", "a", "n", "g", "a", "n", "j">>],
     [id |-> <<"4", "4">>, name |-> <<"N", "a", "r", "s", "i", "n", "g", "d", "i">>],
     [id |-> <<"5", "3">>, name |-> <<"R", "a", "j", "b", "a", "r", "i">>],
     [id |-> <<"5", "8">>, name |-> <<"S", "h", "a", "r", "i", "a", "t", "p", "u", "r">>],
     [id |-> <<"6", "3">>, name |-> <<"T", "a", "n", "g", "a", "i", "l">>],
     [id |-> <<"1", "0", "0", "2">>, name |-> <<"C", "h", "a", "t", "t", "o", "g", "r", "a", "m", " ", "D", "i", "v", "i", "s", "i", "o", "n">>],
     [id |-> <<"3">>, name |-> <<"B", "a", "n", "d", "a", "r", "b", "a", "n">>],
     [id |-> <<"1">>, name |-> <<"B", "r", "a", "h", "m", "a", "n", "b", "a", "r", "i", "a">>],
     [id |-> <<"8">>, name |-> <<"C", "h", "a", "n", "d", "p", "u", "r">>],
     [id |-> <<"1", "0">>, name |-> <<"C", "h", "a", "t", "t", "o", "g", "r", "a", "m">>],
     [id |-> <<"1", "3">>, name |-> <<"C", "o", "x", "'", "s", " ", "B", "a", "z", "a", "r">>],
     [id |-> <<"1", "2">>, name |-> <<"C", "u", "m", "i", "l", "l", "a">>],
     [id |-> <<"1", "7">>, name |-> <<"F", "e", "n", "i">>],
     [id |-> <<"2", "7">>, name |-> <<"K", "h", "a", "g", "r", "a", "c", "h", "h", "a", "r", "i">>],
     [id |-> <<"3", "3">>, name |-> <<"L", "a", "k", "s", "h", "m", "i", "p", "u", "r">>],
     [id |-> <<"4", "8">>, name |-> <<"N", "o", "a", "k", "h", "a", "l", "i">>],
     [id |-> <<"5", "5">>, name |-> <<"R", "a", "n", "g", "a", "m", "a", "t", "i">>],
     [id |-> <<"1", "0", "0", "1">>, name |-> <<"B", "a", "r", "i", "s", "h", "a", "l", " ", "D", "i", "v", "i", "s", "i", "o", "n">>],
     [id |-> <<"7">>, name |-> <<"B", "a", "r", "g", "u", "n", "a">>],
     [id |-> <<"4">>, name |-> <<"B", "a", "r", "i", "s", "h", "a", "l">>],
     [id |-> <<"5">>, name |-> <<"B", "h", "o", "l", "a">>],
     [id |-> <<"2", "4">>, name |-> <<"J", "h", "a", "l", "a", "k", "a", "t", "h", "i">>],
     [id |-> <<"5", "1">>, name |-> <<"P", "a", "t", "u", "a", "k", "h", "a", "l", "i">>],
     [id |-> <<"5", "2">>, name |-> <<"P", "i", "r", "o", "j", "p", "u", "r">>],
     [id |-> <<"1", "0", "0", "4">>, name |-> <<"K", "h", "u", "l", "n", "a", " ", "D", "i", "v", "i", "s", "i", "o", "n">>],
     [id |-> <<"2">>, name |-> <<"B", "a", "g", "e", "r", "h", "a", "t">>],
     [id |-> <<"1", "1">>, name |-> <<"C", "h", "u", "a", "d", "a", "n", "g", "a">>],
     [id |-> <<"2", "3">>, name |-> <<"J", "a", "s", "h", "o", "r", "e">>],
     [id |-> <<"2", "5">>, name |-> <<"J", "h", "e", "n", "a", "i", "d", "a", "h">>],
     [id |-> <<"2", "8">>, name |-> <<"K", "h", "u", "l", "n", "a">>],
     [id |-> <<"3", "1">>, name |-> <<"K", "u", "s", "h", "t", "i", "a">>],
     [id |-> <<"3", "5">>, name |-> <<"M", "a", "g", "u", "r", "a">>],
     [id |-> <<"3", "7">>, name |-> <<"M", "e", "h", "e", "r", "p", "u", "r">>],
     [id |-> <<"4", "2">>, name |-> <<"N", "a", "r", "a", "i", "l">>],
     [id |-> <<"5", "7">>, name |-> <<"S", "a", "t", "k", "h", "i", "r", "a">>],
     [id |-> <<"1", "0", "0", "5">>, name |-> <<"M", "y", "m", "e", "n", "s", "i", "n", "g", "h", " ", "D", "i", "v", "i", "s", "i", "o", "n">>],
     [id |-> <<"2", "2">>, name |-> <<"J", "a", "m", "a", "l", "p", "u", "r">>],
     [id |-> <<"4", "0">>, name |-> <<"M", "y", "m", "e", "n", "s", "i", "n", "g", "h">>],
     [id |-> <<"4", "6">>, name |-> <<"N", "e", "t", "r", "o", "k", "o", "n", "a">>],
     [id |-> <<"5", "9">>, name |-> <<"S", "h", "e", "r", "p", "u", "r">>],
     [id |-> <<"1", "0", "0", "6">>, name |-> <<"R", "a", "j", "s", "h", "a", "h", "i", " ", "D", "i", "v", "i", "s", "i", "o", "n">>],
     [id |-> <<"6">>, name |-> <<"B", "o", "g", "u", "r", "a">>],
     [id |-> <<"9">>, name |-> <<"C", "h", "a", "p", "a", "i", "n", "a", "w", "a", "b", "g", "a", "n", "j">>],
     [id |-> <<"2", "6">>, name |-> <<"J", "o", "y", "p", "u", "r", "h", "a", "t">>],
     [id |-> <<"4", "1">>, name |-> <<"N", "a", "o", "g", "a", "o", "n">>],
     [id |-> <<"4", "5">>, name |-> <<"N", "a", "t", "o", "r", "e">>],
     [id |-> <<"4", "9">>, name |-> <<"P", "a", "b", "n", "a">>],
     [id |-> <<"5", "4">>, name |-> <<"R", "a", "j", "s", "h", "a", "h", "i">>],
     [id |-> <<"6", "0">>, name |-> <<"S", "i", "r", "a", "j", "g", "a", "n", "j">>],
     [id |-> <<"1", "0", "0", "7">>, name |-> <<"R", "a", "n", "g", "p", "u", "r", " ", "D", "i", "v", "i", "s", "i", "o", "n">>],
     [id |-> <<"1", "5">>, name |-> <<"D", "i", "n", "a", "j", "p", "u", "r">>],
     [id |-> <<"1", "8">>, name |-> <<"G", "a", "i", "b", "a", "n", "d", "h", "a">>],
     [id |-> <<"3", "0">>, name |-> <<"K", "u", "r", "i", "g", "r", "a", "m">>],
     [id |-> <<"3", "2">>, name |-> <<"L", "a", "l", "m", "o", "n", "i", "r", "h", "a", "t">>],
     [id |-> <<"4", "7">>, name |-> <<"N", "i", "l", "p", "h", "a", "m", "a", "r", "i">>],
     [id |-> <<"5", "0">>, name |-> <<"P", "a", "n", "c", "h", "a", "g", "a", "r", "h">>],
     [id |-> <<"5", "6">>, name |-> <<"R", "a", "n", "g", "p", "u", "r">>],
     [id |-> <<"6", "4">>, name |-> <<"T", "h", "a", "k", "u", "r", "g", "a", "o", "n">>],
     [id |-> <<"1", "0", "0", "8">>, name |-> <<"S", "y", "l", "h", "e", "t", " ", "D", "i", "v", "i", "s", "i", "o", "n">>],
     [id |-> <<"2", "1">>, name |-> <<"H", "a", "b", "i", "g", "a", "n", "j">>],
     [id |-> <<"3", "8">>, name |-> <<"M", "o", "u", "l", "v", "i", "b", "a", "z", "a", "r">>],
     [id |-> <<"6", "1">>, name |-> <<"S", "u", "n", "a", "m", "g", "a", "n", "j">>],
     [id |-> <<"6", "2">>, name |-> <<"S", "y", "l", "h", "e", "t">>] >>


\* city["name"].lower() of every entry
NamesLower == [i \in 1..Len(CITY_ID_MAP) |-> Lower(CITY_ID_MAP[i].name)]

\* as get_city_id, comparing the name as it was given
get_city_idExact(city_name) ==
  IF ~Truthy(city_name) THEN Null
  ELSE LET hits == {i \in 1..Len(CITY_ID_MAP) : NamesLower[i] = city_name.s}
       IN IF hits = {} THEN Null
          ELSE Str(CITY_ID_MAP[CHOOSE i \in hits : \A j \in hits : i <= j].id)

\* as get_city_id, without the strip
get_city_idUntrimmed(city_name) ==
  IF ~Truthy(city_name) THEN Null
  ELSE LET city_name_lower == Lower(city_name.s)
           hits == {i \in 1..Len(CITY_ID_MAP) : NamesLower[i] = city_name_lower}
       IN IF hits = {} THEN Null
          ELSE Str(CITY_ID_MAP[CHOOSE i \in hits : \A j \in hits : i <= j].id)

\* get_city_id(city_name): the id of the first entry whose name, in lower
\* case, is city_name.lower().strip(); None for no entry and for "" or None
get_city_id(city_name) ==
  IF ~Truthy(city_name) THEN Null
  ELSE LET city_name_lower == Strip(Lower(city_name.s))
           hits == {i \in 1..Len(CITY_ID_MAP) : NamesLower[i] = city_name_lower}
       IN IF hits = {} THEN Null
          ELSE Str(CITY_ID_MAP[CHOOSE i \in hits : \A j \in hits : i <= j].id)

\* get_city_name(city_id): the name of the first entry with this id; None
\* for no entry and for "" or None
get_city_name(city_id) ==
  IF ~Truthy(city_id) THEN Null
  ELSE LET hits == {i \in 1..Len(CITY_ID_MAP) : CITY_ID_MAP[i].id = city_id.s}
       IN IF hits = {} THEN Null
          ELSE Str(CITY_ID_MAP[CHOOSE i \in hits : \A j \in hits : i <= j].name)

\* a list object: which object it is, and its items
ListObject(object, items) == [object |-> object, items |-> items]

\* get_all_cities(): CITY_ID_MAP.copy(), a new list of the same entries
get_all_cities == ListObject("copy", CITY_ID_MAP)

\* `sub in s` of two strings
Contains(s, sub) ==
  \E k \in 0..(Len(s) - Len(sub)) : SubSeq(s, k + 1, k + Len(sub)) = sub

\* search_cities(query): [] for "", else the entries whose name in lower
\* case has query.lower().strip() in it, in the order of the table
search_cities(query) ==
  IF query = <<>> THEN <<>>
  ELSE LET query_lower == Strip(Lower(query))
       IN SelectSeq(CITY_ID_MAP, LAMBDA city : Contains(Lower(city.name), query_lower))

\* ------------------------------------------- scraper.py: build_search_url
DigitChar == <<"0", "1", "2", "3", "4", "5", "6", "7", "8", "9">>

RECURSIVE NatToStr(_)
NatToStr(n) ==
  IF n < 10 THEN <<DigitChar[n + 1]>> ELSE NatToStr(n \div 10) \o <<DigitChar[(n % 10) + 1]>>

\* f"{n}" of an int
IntToStr(n) == IF n < 0 THEN <<"-">> \o NatToStr(-n) ELSE NatToStr(n)

\* 'true' if b else 'false'
BoolText(b) == IF b THEN <<"t", "r", "u", "e">> ELSE <<"f", "a", "l", "s", "e">>

\* the characters urllib.parse.quote_plus leaves as they are
Unreserved ==
  {UpperCase[i] : i \in 1..26} \cup {LowerCase[i] : i \in 1..26} \cup Digits
    \cup {"-", ".", "_", "~"}

\* quote_plus of one character: the letters, the digits, the space and
\* the punctuation of ASCII but for the double quote, the backslash and the
\* backquote
QuoteChar(c) ==
  CASE c \in Unreserved -> <<c>>
    [] c = " " -> <<"+">>
    [] c = "!" -> <<"%", "2", "1">>
    [] c = "#" -> <<"%", "2", "3">>
    [] c = "$" -> <<"%", "2", "4">>
    [] c = "%" -> <<"%", "2", "5">>
    [] c = "&" -> <<"%", "2", "6">>
    [] c = "'" -> <<"%", "2", "7">>
    [] c = "(" -> <<"%", "2", "8">>
    [] c = ")" -> <<"%", "2", "9">>
    [] c = "*" -> <<"%", "2", "A">>
    [] c = "+" -> <<"%", "2", "B">>
    [] c = "," -> <<"%", "2", "C">>
    [] c = "/" -> <<"%", "2", "F">>
    [] c = ":" -> <<"%", "3", "A">>
    [] c = ";" -> <<"%", "3", "B">>
    [] c = "<" -> <<"%", "3", "C">>
    [] c = "=" -> <<"%", "3", "D">>
    [] c = ">" -> <<"%", "3", "E">>
    [] c = "?" -> <<"%", "3", "F">>
    [] c = "@" -> <<"%", "4", "0">>
    [] c = "[" -> <<"%", "5", "B">>
    [] c = "]" -> <<"%", "5", "D">>
    [] c = "^" -> <<"%", "5", "E">>
    [] c = "{" -> <<"%", "7", "B">>
    [] c = "|" -> <<"%", "7", "C">>
    [] c = "}" -> <<"%", "7", "D">>

\* as quote_plus, leaving every character as it is
quote_plusNothing(s) == s

\* urllib.parse.quote_plus(s)
RECURSIVE quote_plus(_)
quote_plus(s) == IF s = <<>> THEN <<>> ELSE QuoteChar(Head(s)) \o quote_plus(Tail(s))

\* as RangeSegment, written only when both endpoints are set
RangeSegmentBothSet(start, end) ==
  IF start > 0 /\ end > 0 THEN IntToStr(start) \o <<"/">> \o IntToStr(end) ELSE <<>>

\* scraper.py 73, 76, 79: f"{start}/{end}" if start > 0 or end > 0 else ""
RangeSegment(start, end) ==
  IF start > 0 \/ end > 0 THEN IntToStr(start) \o <<"/">> \o IntToStr(end) ELSE <<>>

\* as LocationParam, passing on the name that has no id
LocationParamPassingName(location) ==
  LET location_id == IF location # <<>> THEN get_city_id(Str(location)) ELSE Null
  IN IF location_id # Null THEN location_id.s ELSE location

\* scraper.py 82-83: the id of the location, "" when it has none
LocationParam(location) ==
  LET location_id == IF location # <<>> THEN get_city_id(Str(location)) ELSE Null
  IN IF location_id # Null THEN location_id.s ELSE <<>>

API_BASE_URL ==
  <<"h", "t", "t", "p", "s", ":", "/", "/", "a", "p", "i", ".", "b", "d", "j", "o", "b", "s",
    ".", "c", "o", "m">>

\* the parameters of build_search_url and of search_jobs at their defaults
DefaultArguments ==
  [keyword |-> <<>>, location |-> <<>>, page |-> 1, results_per_page |-> 50,
   job_type |-> <<>>, job_level |-> <<>>, age_start |-> 0, age_end |-> 0,
   posted_within |-> <<>>, salary_start |-> 0, salary_end |-> 0,
   experience_start |-> 0, experience_end |-> 0, is_pro |-> 0, is_fresher |-> FALSE,
   gender |-> <<>>, toggle_jobs |-> TRUE, armyp |-> <<>>, workplace |-> <<>>,
   facilities_for_pwd |-> <<>>]

\* build_search_url(**a): the URL, a string
build_search_url(a) ==
  LET age_range == RangeSegment(a.age_start, a.age_end)
      salary_range == RangeSegment(a.salary_start, a.salary_end)
      experience_range == RangeSegment(a.experience_start, a.experience_end)
      location_param == LocationParam(a.location)
  IN API_BASE_URL
       \o <<"/", "J", "o", "b", "s", "/", "a", "p", "i", "/", "J", "o", "b", "S", "e", "a",
            "r", "c", "h", "/", "G", "e", "t", "J", "o", "b", "S", "e", "a", "r", "c", "h", "?">>
       \o <<"I", "c", "a", "t", "=">> \o <<"&">>
       \o <<"i", "n", "d", "u", "s", "t", "r", "y", "=">> \o <<"&">>
       \o <<"c", "a", "t", "e", "g", "o", "r", "y", "=">> \o <<"&">>
       \o <<"o", "r", "g", "=">> \o <<"&">>
       \o <<"j", "o", "b", "N", "a", "t", "u", "r", "e", "=">> \o <<"&">>
       \o <<"F", "c", "a", "t", "=">> \o <<"&">>
       \o <<"l", "o", "c", "a", "t", "i", "o", "n", "=">> \o location_param \o <<"&">>
       \o <<"Q", "o", "t", "=">> \o <<"&">>
       \o <<"j", "o", "b", "T", "y", "p", "e", "=">> \o quote_plus(a.job_type) \o <<"&">>
       \o <<"j", "o", "b", "L", "e", "v", "e", "l", "=">> \o quote_plus(a.job_level) \o <<"&">>
       \o <<"p", "o", "s", "t", "e", "d", "W", "i", "t", "h", "i", "n", "=">> \o a.posted_within \o <<"&">>
       \o <<"d", "e", "a", "d", "l", "i", "n", "e", "=">> \o <<"&">>
       \o <<"k", "e", "y", "w", "o", "r", "d", "=">> \o quote_plus(a.keyword) \o <<"&">>
       \o <<"p", "g", "=">> \o IntToStr(a.page) \o <<"&">>
       \o <<"q", "A", "g", "e", "=">> \o age_range \o <<"&">>
       \o <<"S", "a", "l", "a", "r", "y", "=">> \o salary_range \o <<"&">>
       \o <<"e", "x", "p", "e", "r", "i", "e", "n", "c", "e", "=">> \o experience_range \o <<"&">>
       \o <<"g", "e", "n", "d", "e", "r", "=">> \o a.gender \o <<"&">>
       \o <<"M", "E", "x", "p", "=">> \o <<"&">>
       \o <<"g", "e", "n", "d", "e", "r", "B", "=">> \o <<"&">>
       \o <<"M", "P", "o", "s", "t", "i", "n", "g", "s", "=">> \o <<"&">>
       \o <<"M", "C", "a", "t", "=">> \o <<"&">>
       \o <<"v", "e", "r", "s", "i", "o", "n", "=">> \o <<"&">>
       \o <<"r", "p", "p", "=">> \o IntToStr(a.results_per_page) \o <<"&">>
       \o <<"N", "e", "w", "s", "p", "a", "p", "e", "r", "=">> \o <<"&">>
       \o <<"a", "r", "m", "y", "p", "=">> \o a.armyp \o <<"&">>
       \o <<"Q", "D", "i", "s", "a", "b", "l", "e", "P", "e", "r", "s", "o", "n", "=">> \o <<"&">>
       \o <<"p", "w", "d", "=">> \o <<"&">>
       \o <<"w", "o", "r", "k", "p", "l", "a", "c", "e", "=">> \o a.workplace \o <<"&">>
       \o <<"f", "a", "c", "i", "l", "i", "t", "i", "e", "s", "F", "o", "r", "P", "W", "D", "=">> \o a.facilities_for_pwd \o <<"&">>
       \o <<"S", "a", "v", "e", "F", "i", "l", "t", "e", "r", "L", "i", "s", "t", "=">> \o <<"&">>
       \o <<"U", "s", "e", "r", "F", "i", "l", "t", "e", "r", "N", "a", "m", "e", "=">> \o <<"&">>
       \o <<"H", "U", "s", "e", "r", "F", "i", "l", "t", "e", "r", "N", "a", "m", "e", "=">> \o <<"&">>
       \o <<"e", "a", "r", "l", "y", "J", "o", "b", "A", "c", "c", "e", "s", "s", "=">> \o <<"&">>
       \o <<"i", "s", "P", "r", "o", "=">> \o IntToStr(a.is_pro) \o <<"&">>
       \o <<"T", "o", "g", "g", "l", "e", "J", "o", "b", "s", "=">> \o BoolText(a.toggle_jobs) \o <<"&">>
       \o <<"i", "s", "F", "r", "e", "s", "h", "e", "r", "=">> \o BoolText(a.is_fresher)

\* ------------------------------------------------ scraper.py: search_jobs
Keywords == {<<>>, <<" ">>, <<"a">>}
Pages == {-1, 0, 1}
PageSizes == {0, 1, 100, 101}

\* as ValidationRaises, with the page check left out
ValidationRaisesNoPageCheck(keyword, page, results_per_page) ==
  IF keyword = <<>> \/ Strip(keyword) = <<>>
    THEN Exc("ValueError", "validation", Str(<<"k">>))
  ELSE IF results_per_page < 1 \/ results_per_page > 100
    THEN Exc("ValueError", "validation", Str(<<"r">>))
  ELSE NoExc

\* the three checks of search_jobs, in order: the exception raised, or NoExc
ValidationRaises(keyword, page, results_per_page) ==
  IF keyword = <<>> \/ Strip(keyword) = <<>>
    THEN Exc("ValueError", "validation", Str(<<"k">>))
  ELSE IF page < 1
    THEN Exc("ValueError", "validation", Str(<<"p">>))
  ELSE IF results_per_page < 1 \/ results_per_page > 100
    THEN Exc("ValueError", "validation", Str(<<"r">>))
  ELSE NoExc

\* as ParseRaises, raising when the page is not a success
ParseRaisesUnlessSuccess(response_data) ==
  IF response_data.t # "dict"
    THEN Exc("TypeError", "unpack", Absent)
  ELSE IF ~SearchResultsValid(response_data)
    THEN Exc("ValueError", "format", Absent)
  ELSE IF ~is_success(SearchResults(response_data))
    THEN Exc("RuntimeError", "api", response_data.message)
  ELSE NoExc

\* SearchResults(**response_data) inside try/except ValidationError: the
\* exception search_jobs raises, or NoExc when the page is constructed
ParseRaises(response_data) ==
  IF response_data.t # "dict"
    THEN Exc("TypeError", "unpack", Absent)
  ELSE IF ~SearchResultsValid(response_data)
    THEN Exc("ValueError", "format", Absent)
  ELSE NoExc

\* as SearchResultsRaises, with data and premiumData required
SearchResultsRaisesListsRequired(body) ==
  IF body.t # "dict"
    THEN Exc("TypeError", "unpack", Absent)
  ELSE IF ~SearchResultsValid(body) \/ body.data.t = "absent" \/ body.premiumData.t = "absent"
    THEN Exc("ValidationError", "pydantic", Absent)
  ELSE NoExc

\* SearchResults(**body) called directly: the exception raised, or NoExc
SearchResultsRaises(body) ==
  IF body.t # "dict"
    THEN Exc("TypeError", "unpack", Absent)
  ELSE IF ~SearchResultsValid(body)
    THEN Exc("ValidationError", "pydantic", Absent)
  ELSE NoExc

\* ------------------------------------------------------------------ state
VARIABLES
  since_stamp,   \* time.time() - _last_request_time, up to LongAgo
  _client,       \* http_client._client: 0 is None, else the client's identity
  closed,        \* the clients whose is_closed is True
  created,       \* how many httpx.Client objects were constructed
  frame,         \* per thread: position and locals of its search_jobs invocation
  calls,         \* search_jobs invocations started so far
  last_request,  \* the latest request sent: who sent it, how long ago, and how
                 \* long after the one before it (gap)
  lib_call,      \* the latest call application code made of a function of
                 \* models.py, locations.py or of build_search_url: the function,
                 \* its arguments, the object it works on and what it returned
  app_state,     \* gui: window.app_state (search_results, current_page,
                 \* results_per_page, search_params)
  search_thread, \* gui: the background thread of a search handler, with the
                 \* variables of its closure, and the loading dialog
  results_view,  \* gui: the results view as show_results_view drew it last
  held_request,  \* the request whose answer is app_state["search_results"]
  jobs,          \* orm: the rows of the table "jobs", in the order of their ids
  latest         \* per external_id, the latest save or remove and its outcome

\* the state of the desktop UI, and of the database
gui == <<app_state, search_thread, results_view, held_request>>
database == <<jobs, latest>>

vars == <<since_stamp, _client, closed, created, frame, calls, last_request, lib_call,
          gui, database>>

\* the transport's module-level state
transport == <<since_stamp, _client, closed, created>>

NoResult == [kind |-> "none", exc |-> NoExc, page |-> NoPage]
Raised(exc) == [kind |-> "error", exc |-> exc, page |-> NoPage]
Returned(page) == [kind |-> "page", exc |-> NoExc, page |-> page]

\* search_url is not yet bound
NoUrl == <<>>

\* the frame of a thread that is not inside search_jobs
IdleFrame ==
  [pc |-> "idle", keyword |-> <<>>, page |-> 0, results_per_page |-> 0,
   search_url |-> NoUrl, attempt_number |-> 0, sleep_left |-> 0, slept |-> FALSE,
   client |-> 0, waited |-> 0, response_data |-> NonDictBody("null"),
   response |-> NoResponse, sent |-> 0, waits |-> 0, outcomes |-> <<>>,
   result |-> NoResult]

NoRequest == [count |-> 0, thread |-> 0, client |-> 0, age |-> LongAgo, gap |-> LongAgo]

\* no such call was made
NoLibCall == [fn |-> "none"]

\* a search_params dict: keys tells which keys it has ("none": {}; "basic":
\* those perform_search stores; "advanced": those perform_advanced_search
\* stores, "posted_within" among them)
SearchParams(keys, keyword, location, exp_start) ==
  [keys |-> keys, keyword |-> keyword, location |-> location, exp_start |-> exp_start]
NoParams == SearchParams("none", <<>>, <<>>, <<>>)

\* gui.py 59-69; search_results None is NoPage with held FALSE
InitialAppState ==
  [search_results |-> NoPage, held |-> FALSE, current_page |-> 1,
   results_per_page |-> 10, search_params |-> NoParams]

\* no search is running and no loading dialog is open
NoThread ==
  [pc |-> "none", keyword |-> <<>>, page |-> 0, params |-> NoParams]

\* the results view was never drawn
NoView == [drawn |-> FALSE, current_page |-> 0, total_pages |-> 0]

\* no page is held
NoHeldRequest ==
  [page |-> 0, results_per_page |-> 0, params |-> NoParams, body |-> NonDictBody("null")]

\* the identifiers of the listings a user may save
ExternalIds == {sJobA, <<"8">>, <<>>}

\* nothing was done with the listing yet
NeverSaved == [op |-> "none", ok |-> FALSE, id |-> 0, first_id |-> 0]

Init ==
  /\ since_stamp = LongAgo
  /\ _client = 0
  /\ closed = {}
  /\ created = 0
  /\ frame = [t \in Threads |-> IdleFrame]
  /\ calls = 0
  /\ last_request = NoRequest
  /\ lib_call = NoLibCall
  /\ app_state = InitialAppState
  /\ search_thread = NoThread
  /\ results_view = NoView
  /\ held_request = NoHeldRequest
  /\ jobs = <<>>
  /\ latest = [external_id \in ExternalIds |-> NeverSaved]


\* ---------------------------------------------------------- search_jobs
\* the caller enters search_jobs(keyword, page=page, results_per_page=...)
Call(t, keyword, page, results_per_page) ==
  /\ frame[t].pc = "idle"
  /\ calls < MaxCalls
  /\ calls' = calls + 1
  /\ frame' = [frame EXCEPT ![t] =
       [IdleFrame EXCEPT !.pc = "validate", !.keyword = keyword, !.page = page,
                         !.results_per_page = results_per_page]]
  /\ UNCHANGED <<since_stamp, _client, closed, created, last_request, lib_call, gui, database>>

\* search_jobs ends: its locals are gone, the caller holds the result; the
\* record of the invocation (requests sent, backoff waits, attempt outcomes,
\* the last answer of client.get, whether rate_limit slept) stays readable
\* until the thread's next call
Finish(f, result) ==
  [IdleFrame EXCEPT !.result = result, !.sent = f.sent, !.waits = f.waits,
                    !.outcomes = f.outcomes, !.response = f.response,
                    !.slept = f.slept]

\* search_jobs raises exc to its caller
Raise(f, exc) == Finish(f, Raised(exc))

\* scraper.py 185-195
Validate(t) ==
  /\ frame[t].pc = "validate"
  /\ LET f == frame[t]
         exc == ValidationRaises(f.keyword, f.page, f.results_per_page)
     IN frame' = [frame EXCEPT ![t] =
          IF exc # NoExc THEN Raise(f, exc) ELSE [f EXCEPT !.pc = "build"]]
  /\ UNCHANGED <<since_stamp, _client, closed, created, calls, last_request, lib_call, gui, database>>

\* scraper.py 199-224: the URL is built and api_get is entered (attempt 1)
Build(t) ==
  /\ frame[t].pc = "build"
  /\ LET f == frame[t]
     IN frame' = [frame EXCEPT ![t] =
          [f EXCEPT !.pc = "rate_limit", !.attempt_number = 1,
                    !.search_url = build_search_url(
                      [DefaultArguments EXCEPT !.keyword = f.keyword, !.page = f.page,
                                               !.results_per_page = f.results_per_page])]]
  /\ UNCHANGED <<since_stamp, _client, closed, created, calls, last_request, lib_call, gui, database>>

\* ------------------------------------------------------------ rate_limit
\* as SleepTime, with the comparison turned round
SleepTimeInverted(time_since_last_request) ==
  IF time_since_last_request > MIN_REQUEST_INTERVAL
    THEN MIN_REQUEST_INTERVAL
    ELSE 0

\* http_client.py 101-102: sleep_time for a time_since_last_request (0: no sleep)
SleepTime(time_since_last_request) ==
  IF time_since_last_request < MIN_REQUEST_INTERVAL
    THEN MIN_REQUEST_INTERVAL - time_since_last_request
    ELSE 0

\* as RateLimitRead, failing the call that comes too soon instead of sleeping
RateLimitReadDropping(t) ==
  /\ frame[t].pc = "rate_limit"
  /\ LET f == frame[t]
         sleep_time == SleepTime(since_stamp)
     IN frame' = [frame EXCEPT ![t] =
          IF sleep_time > 0
            THEN Finish(f, Raised(Exc("RuntimeError", "rate", Absent)))
            ELSE [f EXCEPT !.pc = "stamp"]]
  /\ UNCHANGED <<since_stamp, _client, closed, created, calls, last_request, lib_call, gui, database>>

\* http_client.py 98-103: read the clock and the stamp, sleep if too soon
RateLimitRead(t) ==
  /\ frame[t].pc = "rate_limit"
  /\ LET f == frame[t]
         sleep_time == SleepTime(since_stamp)
     IN frame' = [frame EXCEPT ![t] =
          IF sleep_time > 0
            THEN [f EXCEPT !.pc = "sleep", !.sleep_left = sleep_time, !.slept = TRUE]
            ELSE [f EXCEPT !.pc = "stamp"]]
  /\ UNCHANGED <<since_stamp, _client, closed, created, calls, last_request, lib_call, gui, database>>

\* time.sleep(sleep_time) returns
Wake(t) ==
  /\ frame[t].pc = "sleep"
  /\ frame[t].sleep_left = 0
  /\ frame' = [frame EXCEPT ![t].pc = "stamp"]
  /\ UNCHANGED <<since_stamp, _client, closed, created, calls, last_request, lib_call, gui, database>>

\* http_client.py 105: _last_request_time = time.time()
Stamp(t) ==
  /\ frame[t].pc = "stamp"
  /\ since_stamp' = 0
  /\ frame' = [frame EXCEPT ![t].pc = "get_client"]
  /\ UNCHANGED <<_client, closed, created, calls, last_request, lib_call, gui, database>>

\* ------------------------------------------- get_http_client / close
\* as GetClientCheck, without the is_closed test
GetClientCheckNoneOnly(t) ==
  /\ frame[t].pc = "get_client"
  /\ frame' = [frame EXCEPT ![t].pc =
       IF _client = 0 THEN "create_client" ELSE "return_client"]
  /\ UNCHANGED <<since_stamp, _client, closed, created, calls, last_request, lib_call, gui, database>>

\* http_client.py 47: `if _client is None or _client.is_closed`
GetClientCheck(t) ==
  /\ frame[t].pc = "get_client"
  /\ frame' = [frame EXCEPT ![t].pc =
       IF _client = 0 \/ _client \in closed THEN "create_client" ELSE "return_client"]
  /\ UNCHANGED <<since_stamp, _client, closed, created, calls, last_request, lib_call, gui, database>>

\* http_client.py 48-56: _client = httpx.Client(...)
GetClientCreate(t) ==
  /\ frame[t].pc = "create_client"
  /\ created' = created + 1
  /\ _client' = created + 1
  /\ frame' = [frame EXCEPT ![t].pc = "return_client"]
  /\ UNCHANGED <<since_stamp, closed, calls, last_request, lib_call, gui, database>>

\* http_client.py 59 and 134: client = get_http_client()
GetClientReturn(t) ==
  /\ frame[t].pc = "return_client"
  /\ frame' = [frame EXCEPT ![t] = [@ EXCEPT !.pc = "send", !.client = _client]]
  /\ UNCHANGED <<since_stamp, _client, closed, created, calls, last_request, lib_call, gui, database>>

\* close_http_client(), called by a caller that is not inside search_jobs
CloseHttpClient(t) ==
  /\ frame[t].pc = "idle"
  /\ _client # 0 /\ _client \notin closed
  /\ closed' = closed \cup {_client}
  /\ _client' = 0
  /\ UNCHANGED <<since_stamp, created, frame, calls, last_request, lib_call, gui, database>>

\* the holder of the client get_http_client returned closes it itself
\* (client.close(), or leaving `with get_http_client():`): the object is
\* closed while _client still refers to it
ClientClose(t) ==
  /\ frame[t].pc = "idle"
  /\ _client # 0 /\ _client \notin closed
  /\ closed' = closed \cup {_client}
  /\ UNCHANGED <<since_stamp, _client, created, frame, calls, last_request, lib_call, gui, database>>

\* ---------------------------------------------------------------- api_get
\* http_client.py 138: client.get(url) sends the request; a client that is
\* None or closed raises before anything is sent, and nothing retries that
Send(t) ==
  /\ frame[t].pc = "send"
  /\ LET f == frame[t]
     IN IF f.client = 0
          THEN /\ frame' = [frame EXCEPT ![t] = Raise(f, Exc("AttributeError", "client", Absent))]
               /\ UNCHANGED last_request
        ELSE IF f.client \in closed
          THEN /\ frame' = [frame EXCEPT ![t] = Raise(f, Exc("RuntimeError", "client", Absent))]
               /\ UNCHANGED last_request
        ELSE /\ frame' = [frame EXCEPT ![t] =
                  [f EXCEPT !.pc = "await", !.waited = 0, !.sent = f.sent + 1]]
             /\ last_request' = [count |-> Min(last_request.count + 1, 2), thread |-> t,
                                 client |-> f.client, age |-> 0, gap |-> last_request.age]
  /\ UNCHANGED <<since_stamp, _client, closed, created, calls, lib_call, gui, database>>

\* reraise=True: what the retry decorator raises once it gives up
Reraise(exc) == exc

\* the name an attempt's outcome is logged under
OutcomeOf(exc) == IF exc = NoExc THEN "ok" ELSE exc.type

\* http_client.py 108-113 and 139-167: client.get ends with resp; api_get
\* returns the body, or raises, or the decorator schedules another attempt
Respond(t, resp) ==
  /\ frame[t].pc = "await"
  /\ LET exc == ApiGetRaises(resp)
         f == [frame[t] EXCEPT !.outcomes = Append(@, OutcomeOf(exc)), !.response = resp]
     IN frame' = [frame EXCEPT ![t] =
          IF exc = NoExc
            THEN [f EXCEPT !.pc = "parse", !.response_data = resp.body]
          ELSE IF ~RetryIf(exc)
            THEN Raise(f, exc)
          ELSE IF StopAfterAttempt(f.attempt_number)
            THEN Raise(f, Reraise(exc))
          ELSE [f EXCEPT !.pc = "backoff", !.waits = f.waits + 1,
                         !.sleep_left = WaitExponential(f.attempt_number)]]
  /\ UNCHANGED <<since_stamp, _client, closed, created, calls, last_request, lib_call, gui, database>>

\* the backoff sleep of the decorator ends: the next attempt enters api_get
Retry(t) ==
  /\ frame[t].pc = "backoff"
  /\ frame[t].sleep_left = 0
  /\ frame' = [frame EXCEPT ![t] =
       [@ EXCEPT !.pc = "rate_limit", !.attempt_number = @ + 1]]
  /\ UNCHANGED <<since_stamp, _client, closed, created, calls, last_request, lib_call, gui, database>>

\* as Parse, building the URL and asking again when the body has not the shape
ParseAskingAgain(t) ==
  /\ frame[t].pc = "parse"
  /\ LET f == frame[t]
         exc == ParseRaises(f.response_data)
     IN frame' = [frame EXCEPT ![t] =
          IF exc # NoExc
            THEN [f EXCEPT !.pc = "build"]
            ELSE Finish(f, Returned(SearchResults(f.response_data)))]
  /\ UNCHANGED <<since_stamp, _client, closed, created, calls, last_request, lib_call, gui, database>>

\* scraper.py 227-243
Parse(t) ==
  /\ frame[t].pc = "parse"
  /\ LET f == frame[t]
         exc == ParseRaises(f.response_data)
     IN frame' = [frame EXCEPT ![t] =
          IF exc # NoExc
            THEN Raise(f, exc)
            ELSE Finish(f, Returned(SearchResults(f.response_data)))]
  /\ UNCHANGED <<since_stamp, _client, closed, created, calls, last_request, lib_call, gui, database>>

\* ------------------------------------------------------------------ clock
\* the thread is blocked and stays blocked while the clock moves one tick
Blocked(t) ==
  \/ frame[t].pc = "idle"
  \/ frame[t].pc \in {"sleep", "backoff"} /\ frame[t].sleep_left > 0
  \/ frame[t].pc = "await" /\ frame[t].waited < MaxLatency

\* one tick of the wall clock
Tick ==
  /\ \A t \in Threads : Blocked(t)
  /\ since_stamp' = Min(since_stamp + 1, LongAgo)
  /\ last_request' = [last_request EXCEPT !.age = Min(@ + 1, LongAgo)]
  /\ frame' = [t \in Threads |->
       CASE frame[t].pc = "await" -> [frame[t] EXCEPT !.waited = @ + 1]
         [] frame[t].pc \in {"sleep", "backoff"} -> [frame[t] EXCEPT !.sleep_left = @ - 1]
         [] OTHER -> frame[t]]
  /\ UNCHANGED <<_client, closed, created, calls, lib_call, gui, database>>

\* ------------------------------------------- direct calls of the library
\* results = SearchResults(**body)
ConstructPage(body) ==
  /\ lib_call = NoLibCall
  /\ LET exc == SearchResultsRaises(body)
     IN lib_call' = [fn |-> "SearchResults", body |-> body, exc |-> exc,
                     results |-> IF exc = NoExc THEN SearchResults(body) ELSE NoPage,
                     all_jobs |-> <<>>, total_results |-> 0, is_success |-> FALSE]
  /\ UNCHANGED <<since_stamp, _client, closed, created, frame, calls, last_request, gui, database>>

\* a SearchResults object is at hand
HoldsPage ==
  /\ lib_call.fn \in {"SearchResults", "all_jobs", "total_results", "is_success"}
  /\ lib_call.exc = NoExc

\* the record of a call made on the SearchResults object at hand
PageCall(fn) ==
  [lib_call EXCEPT !.fn = fn, !.all_jobs = <<>>, !.total_results = 0, !.is_success = FALSE]

\* results.all_jobs
AllJobs ==
  /\ HoldsPage
  /\ lib_call' = [PageCall("all_jobs") EXCEPT !.all_jobs = all_jobs(lib_call.results)]
  /\ UNCHANGED <<since_stamp, _client, closed, created, frame, calls, last_request, gui, database>>

\* results.total_results
TotalResults ==
  /\ HoldsPage
  /\ lib_call' = [PageCall("total_results") EXCEPT
                    !.total_results = total_results(lib_call.results)]
  /\ UNCHANGED <<since_stamp, _client, closed, created, frame, calls, last_request, gui, database>>

\* results.is_success()
IsSuccess ==
  /\ HoldsPage
  /\ lib_call' = [PageCall("is_success") EXCEPT !.is_success = is_success(lib_call.results)]
  /\ UNCHANGED <<since_stamp, _client, closed, created, frame, calls, last_request, gui, database>>

\* str.upper() and str.swapcase()
UpperChar(c) ==
  IF \E i \in 1..26 : LowerCase[i] = c
    THEN UpperCase[CHOOSE i \in 1..26 : LowerCase[i] = c]
    ELSE c
Upper(s) == [i \in 1..Len(s) |-> UpperChar(s[i])]
SwapCase(s) == [i \in 1..Len(s) |-> IF UpperChar(s[i]) = s[i] THEN LowerChar(s[i])
                                                            ELSE UpperChar(s[i])]

\* names with blanks around them, and with a blank inside
PaddedNames ==
  {<<" ">> \o Lower(CITY_ID_MAP[i].name) \o <<" ", " ">> : i \in 1..Len(CITY_ID_MAP)}
    \cup {<<" ", "D", "h", "a", "k", "a">>, <<"D", "H", "A", "K", "A", " ">>,
          <<"D", "h", " ", "a", "k", "a">>, <<" ", " ">>,
          <<" ", "P", "a", "r", "i", "s", " ">>}

\* the names application code looks up: every name of the table as it is
\* written, in lower case, in upper case, with the cases swapped and with
\* blanks around it, and names the table has not
CityNames ==
  UNION {{CITY_ID_MAP[i].name, Lower(CITY_ID_MAP[i].name), Upper(CITY_ID_MAP[i].name),
          SwapCase(CITY_ID_MAP[i].name)} : i \in 1..Len(CITY_ID_MAP)}
    \cup {<<>>, <<" ">>, <<"P", "a", "r", "i", "s">>, <<"D", "h", "a", "k">>}
    \cup PaddedNames

\* the ids application code looks up: every id of the table, and ids the
\* table has not
CityIds ==
  {CITY_ID_MAP[i].id : i \in 1..Len(CITY_ID_MAP)} \cup {<<>>, <<"9", "9", "9">>, <<"0">>}

\* the values of each endpoint of a range, and of the location
RangeEnds == {-2, 0, 15}
Locations ==
  {<<>>, <<" ">>, <<"D", "h", "a", "k", "a">>, <<"d", "h", "a", "k", "a">>, <<" ", "D", "H", "A", "K", "A", " ">>, <<"C", "o", "x", "'", "s", " ", "B", "a", "z", "a", "r">>, <<"P", "a", "r", "i", "s">>, <<"D", "h", "a", "k">>}

\* the arguments application code calls build_search_url with: every
\* combination of the three ranges without a location and with a known one,
\* and every location with one range set
UrlArguments ==
  { [DefaultArguments EXCEPT !.keyword = <<"a">>, !.location = location,
                             !.age_start = r[1], !.age_end = r[2],
                             !.salary_start = r[3], !.salary_end = r[4],
                             !.experience_start = r[5], !.experience_end = r[6]] :
      location \in {<<>>, <<"D", "h", "a", "k", "a">>},
      r \in RangeEnds \X RangeEnds \X RangeEnds \X RangeEnds \X RangeEnds \X RangeEnds }
  \cup
  { [DefaultArguments EXCEPT !.keyword = <<"a">>, !.location = location,
                             !.salary_start = salary_start] :
      location \in Locations, salary_start \in RangeEnds }

\* the free texts application code passes as keyword, job type and job
\* level: plain words, and texts holding the characters that separate the
\* parameters of a query string
FreeTexts ==
  {<<>>, <<"a">>, <<"F", "u", "l", "l", "T", "i", "m", "e">>, <<"a", " ", "b">>,
   <<"a", "&", "p", "g", "=", "9">>, <<"?", "#", "/">>, <<"%", "2", "6", "+">>}

\* the codes of the filters search_jobs declares as Literal types
PostedWithinCodes == {<<>>, <<"1">>, <<"2">>, <<"3">>, <<"4">>, <<"5">>}
GenderCodes == {<<>>, <<"M">>, <<"F">>, <<"B">>}
ArmypCodes == {<<>>, <<"y", "e", "s">>}
FlagCodes == {<<>>, <<"1">>}

\* arguments with every combination of free texts, and with every
\* combination of filter codes and flags
TextArguments ==
  { [DefaultArguments EXCEPT !.keyword = keyword, !.job_type = job_type,
                             !.job_level = job_level] :
      keyword \in FreeTexts, job_type \in FreeTexts, job_level \in FreeTexts }
  \cup
  { [DefaultArguments EXCEPT !.keyword = <<"a", "&", "p", "g", "=", "9">>,
                             !.posted_within = c[1], !.gender = c[2], !.armyp = c[3],
                             !.workplace = c[4], !.facilities_for_pwd = c[5],
                             !.is_pro = IF b[1] THEN 1 ELSE 0, !.is_fresher = b[2],
                             !.toggle_jobs = b[3], !.page = 2, !.results_per_page = 10] :
      c \in PostedWithinCodes \X GenderCodes \X ArmypCodes \X FlagCodes \X FlagCodes,
      b \in BOOLEAN \X BOOLEAN \X BOOLEAN }

\* search_url = build_search_url(**a)
BuildSearchUrl(a) ==
  /\ lib_call = NoLibCall
  /\ lib_call' = [fn |-> "build_search_url", args |-> a, search_url |-> build_search_url(a)]
  /\ UNCHANGED <<since_stamp, _client, closed, created, frame, calls, last_request, gui, database>>

\* city_id = get_city_id(city_name)
GetCityId(city_name) ==
  /\ lib_call = NoLibCall
  /\ lib_call' = [fn |-> "get_city_id", first |-> "name", city_name |-> Str(city_name),
                  city_id |-> get_city_id(Str(city_name)), back |-> Absent]
  /\ UNCHANGED <<since_stamp, _client, closed, created, frame, calls, last_request, gui, database>>

\* get_city_name(city_id) of the id get_city_id returned
GetCityNameOfId ==
  /\ lib_call.fn = "get_city_id" /\ lib_call.first = "name"
  /\ lib_call' = [lib_call EXCEPT !.fn = "get_city_name",
                                  !.back = get_city_name(lib_call.city_id)]
  /\ UNCHANGED <<since_stamp, _client, closed, created, frame, calls, last_request, gui, database>>

\* city_name = get_city_name(city_id)
GetCityName(city_id) ==
  /\ lib_call = NoLibCall
  /\ lib_call' = [fn |-> "get_city_name", first |-> "id", city_id |-> Str(city_id),
                  city_name |-> get_city_name(Str(city_id)), back |-> Absent]
  /\ UNCHANGED <<since_stamp, _client, closed, created, frame, calls, last_request, gui, database>>

\* get_city_id(city_name) of the name get_city_name returned
GetCityIdOfName ==
  /\ lib_call.fn = "get_city_name" /\ lib_call.first = "id"
  /\ lib_call' = [lib_call EXCEPT !.fn = "get_city_id",
                                  !.back = get_city_id(lib_call.city_name)]
  /\ UNCHANGED <<since_stamp, _client, closed, created, frame, calls, last_request, gui, database>>

\* cities = get_all_cities()
GetAllCities ==
  /\ lib_call = NoLibCall
  /\ lib_call' = [fn |-> "get_all_cities", cities |-> get_all_cities]
  /\ UNCHANGED <<since_stamp, _client, closed, created, frame, calls, last_request, gui, database>>

\* the queries application code searches the table for
Queries ==
  {<<>>, <<" ">>, <<" ", " ">>, <<"d", "h", "a">>, <<"D", "H", "A">>, <<"a">>,
   <<" ", "d", "h", "a", "k", "a", " ">>, <<"z", "z", "z">>, <<"p", "u", "r">>,
   <<"'", "S", " ", "b">>, <<"D", "h", "a", "k", "a">>, <<"g", "a", "n", "j">>}

\* cities = search_cities(query)
SearchCities(query) ==
  /\ lib_call = NoLibCall
  /\ lib_call' = [fn |-> "search_cities", query |-> query, cities |-> search_cities(query)]
  /\ UNCHANGED <<since_stamp, _client, closed, created, frame, calls, last_request, gui, database>>

\* ------------------------------------------------------ gui.py: searching
\* what the user types into the search forms, and picks in the page-size menu
GuiKeywords == {<<>>, <<"a">>, <<"b", " ">>}
GuiLocations == {<<>>, <<"D", "h", "a", "k", "a">>}
ExperienceTexts == {<<"0">>, <<"2">>, <<"x">>}
PageSizeChoices == {5, 20}

\* int(text) raises ValueError
IntRaises(text) ==
  LET t == Strip(text)
      digits == IF t # <<>> /\ Head(t) \in {"-", "+"} THEN Tail(t) ELSE t
  IN digits = <<>> \/ \E i \in 1..Len(digits) : digits[i] \notin Digits

\* perform_search (701-768) and perform_advanced_search (771-896) up to
\* thread.start(), entered with app_state as `state`: the keyword check, the
\* int() conversions of the advanced search, the store of page 1, the
\* loading dialog and the thread
SearchHandler(state, keys, keyword, location, exp_start, page) ==
  IF keyword = <<>> \/ Strip(keyword) = <<>>
    THEN /\ app_state' = state
         /\ UNCHANGED search_thread
  ELSE IF keys = "advanced" /\ exp_start # <<>> /\ Strip(exp_start) # <<>> /\ IntRaises(exp_start)
    THEN /\ app_state' = state
         /\ UNCHANGED search_thread
  ELSE /\ app_state' =
            IF page = 1
              THEN [state EXCEPT !.current_page = 1,
                                 !.search_params =
                                   SearchParams(keys, Strip(keyword), location, exp_start)]
              ELSE state
       /\ search_thread' =
            [pc |-> "start", keyword |-> keyword, page |-> page,
             params |-> SearchParams(keys, Strip(keyword), location, exp_start)]

\* no handler of the main window runs while the loading dialog has the grab
MainWindowResponds == search_thread.pc = "none"

\* "Back to Search" and the navigation: show_search_view
ShowSearchView ==
  /\ MainWindowResponds
  /\ results_view.drawn
  /\ results_view' = NoView
  /\ UNCHANGED <<since_stamp, _client, closed, created, frame, calls, last_request, lib_call,
                 app_state, search_thread, held_request, database>>

\* the search button of the home view and of the search view
PerformSearch(keyword, location) ==
  /\ MainWindowResponds
  /\ ~results_view.drawn
  /\ calls < MaxCalls
  /\ SearchHandler(app_state, "basic",
                   keyword, IF location = <<"A", "n", "y">> THEN <<>> ELSE location, <<>>, 1)
  /\ UNCHANGED <<since_stamp, _client, closed, created, frame, calls, last_request, lib_call,
                 results_view, held_request, database>>

\* the search button of the advanced search view
PerformAdvancedSearch(keyword, location, exp_start) ==
  /\ MainWindowResponds
  /\ ~results_view.drawn
  /\ calls < MaxCalls
  /\ SearchHandler(app_state, "advanced", keyword, location, exp_start, 1)
  /\ UNCHANGED <<since_stamp, _client, closed, created, frame, calls, last_request, lib_call,
                 results_view, held_request, database>>

\* the pages the pagination buttons of the results view lead to
PaginationTargets ==
  IF results_view.drawn /\ results_view.total_pages > 1
    THEN {page \in {results_view.current_page - 1, results_view.current_page + 1} :
            page >= 1 /\ page <= results_view.total_pages}
    ELSE {}

\* go_to_page(window, page), 1031-1060
GoToPage(page) ==
  /\ MainWindowResponds
  /\ page \in PaginationTargets
  /\ calls < MaxCalls
  /\ LET params == app_state.search_params
     IN IF params.keys = "none"
          THEN UNCHANGED <<app_state, search_thread>>
          ELSE SearchHandler(app_state, params.keys, params.keyword, params.location,
                             params.exp_start, page)
  /\ UNCHANGED <<since_stamp, _client, closed, created, frame, calls, last_request, lib_call,
                 results_view, held_request, database>>

\* change_results_per_page(window, new_per_page), 1063-1095
ChangeResultsPerPage(new_per_page) ==
  /\ MainWindowResponds
  /\ results_view.drawn
  /\ calls < MaxCalls
  /\ LET state == [app_state EXCEPT !.results_per_page = new_per_page, !.current_page = 1]
         params == state.search_params
     IN IF params.keys = "none"
          THEN app_state' = state /\ UNCHANGED search_thread
          ELSE SearchHandler(state, params.keys, params.keyword, params.location,
                             params.exp_start, 1)
  /\ UNCHANGED <<since_stamp, _client, closed, created, frame, calls, last_request, lib_call,
                 results_view, held_request, database>>

\* search_thread, 727-738 and 848-867: per_page is read and search_jobs is
\* entered
SearchThreadCall ==
  /\ search_thread.pc = "start"
  /\ frame[1].pc = "idle"
  /\ LET per_page == app_state.results_per_page
     IN frame' = [frame EXCEPT ![1] =
          [IdleFrame EXCEPT !.pc = "validate", !.keyword = Strip(search_thread.keyword),
                            !.page = search_thread.page, !.results_per_page = per_page]]
  /\ calls' = calls + 1
  /\ search_thread' = [search_thread EXCEPT !.pc = "search_jobs"]
  /\ UNCHANGED <<since_stamp, _client, closed, created, last_request, lib_call,
                 app_state, results_view, held_request, database>>

\* as SearchThreadStore, adding the listings of the new page to the held one
SearchThreadStoreMerging ==
  /\ search_thread.pc = "search_jobs"
  /\ frame[1].pc = "idle" /\ frame[1].result.kind = "page"
  /\ app_state' = [app_state EXCEPT
                     !.search_results =
                       [frame[1].result.page EXCEPT
                          !.data = app_state.search_results.data \o @], !.held = TRUE,
                     !.current_page = search_thread.page]
  /\ held_request' = [page |-> search_thread.page,
                      results_per_page |-> frame[1].results_per_page,
                      params |-> search_thread.params, body |-> frame[1].response.body]
  /\ search_thread' = [search_thread EXCEPT !.pc = "update_ui"]
  /\ UNCHANGED <<since_stamp, _client, closed, created, frame, calls, last_request, lib_call,
                 results_view, database>>

\* search_thread, 740-752 and 868-880: search_jobs returned
SearchThreadStore ==
  /\ search_thread.pc = "search_jobs"
  /\ frame[1].pc = "idle" /\ frame[1].result.kind = "page"
  /\ app_state' = [app_state EXCEPT !.search_results = frame[1].result.page, !.held = TRUE,
                                    !.current_page = search_thread.page]
  /\ held_request' = [page |-> search_thread.page,
                      results_per_page |-> frame[1].results_per_page,
                      params |-> search_thread.params, body |-> frame[1].response.body]
  /\ search_thread' = [search_thread EXCEPT !.pc = "update_ui"]
  /\ UNCHANGED <<since_stamp, _client, closed, created, frame, calls, last_request, lib_call,
                 results_view, database>>

\* search_thread, 754-764 and 882-892: search_jobs raised
SearchThreadExcept ==
  /\ search_thread.pc = "search_jobs"
  /\ frame[1].pc = "idle" /\ frame[1].result.kind = "error"
  /\ search_thread' = [search_thread EXCEPT !.pc = "show_error"]
  /\ UNCHANGED <<since_stamp, _client, closed, created, frame, calls, last_request, lib_call,
                 app_state, results_view, held_request, database>>

\* update_ui: the loading dialog goes and show_results_view (899-990) draws
\* the held page
UpdateUi ==
  /\ search_thread.pc = "update_ui"
  /\ search_thread' = NoThread
  /\ LET results == app_state.search_results
     IN results_view' =
          IF ~app_state.held THEN NoView
          ELSE [drawn |-> TRUE, current_page |-> app_state.current_page,
                total_pages |-> Max(1, results.common.totalpages)]
  /\ UNCHANGED <<since_stamp, _client, closed, created, frame, calls, last_request, lib_call,
                 app_state, held_request, database>>

\* show_error: the loading dialog goes, the message is shown
ShowError ==
  /\ search_thread.pc = "show_error"
  /\ search_thread' = NoThread
  /\ UNCHANGED <<since_stamp, _client, closed, created, frame, calls, last_request, lib_call,
                 app_state, results_view, held_request, database>>

\* self.all_jobs filtered by job.is_remote(), which is job.OnlineJob
get_remote_jobs(page) == SelectSeq(all_jobs(page), LAMBDA job : job.OnlineJob)

\* the derived operations called on the held page, as a view does
HeldPageCalls ==
  /\ MainWindowResponds
  /\ app_state.held
  /\ lib_call = NoLibCall
  /\ LET results == app_state.search_results
     IN lib_call' = [fn |-> "held_page", all_jobs |-> all_jobs(results),
                     total_results |-> total_results(results),
                     is_success |-> is_success(results),
                     get_remote_jobs |-> get_remote_jobs(results)]
  /\ UNCHANGED <<since_stamp, _client, closed, created, frame, calls, last_request,
                 gui, database>>

\* the answers of the upstream to the searches of the UI: a page of three,
\* a page of one, or no JSON (which api_get does not retry)
PageOfThree ==
  Body(Str(sOne), Str(sSuccess), Common(Num(3), Num(3), Num(3)),
       ListOf(<<GoodItem(sJobA, Bool(TRUE))>>), ListOf(<<GoodItem(sJobC, Bool(FALSE))>>))
PageOfOne ==
  Body(Str(sOne), Str(sSuccess), Common(Num(1), Num(1), Num(1)),
       ListOf(<<GoodItem(sJobB, Absent)>>), NoList)
GuiResponses == {InvalidJson, Json(PageOfThree), Json(PageOfOne)}

\* ----------------------------------------- gui.py and orm.py: saved jobs
\* the listings of result pages whose card has the Save button: two
\* listings, one of them also as the upstream shows it later, under another
\* title, and a listing with an empty identifier
SavableJobs ==
  { SearchResult(GoodItem(sJobA, Bool(TRUE))),
    SearchResult(Item(Str(sJobA), Str(<<"o", "p", "s">>), Str(sCompany), Absent)),
    SearchResult(GoodItem(sJobB, Absent)),
    SearchResult(GoodItem(<<" ">>, Absent)) }

\* a row of the table jobs; is_active has default=True
JobRow(id, external_id, title, is_active) ==
  [id |-> id, external_id |-> external_id, title |-> title, is_active |-> is_active]

\* session.query(Job).filter_by(external_id=external_id).first(): the place
\* of the row, 0 for None
FirstWithExternalId(external_id) ==
  IF \E i \in 1..Len(jobs) : jobs[i].external_id = external_id
    THEN CHOOSE i \in 1..Len(jobs) :
           /\ jobs[i].external_id = external_id
           /\ \A j \in 1..(i - 1) : jobs[j].external_id # external_id
    ELSE 0

\* orm.save_job(job_data), 306-331: the table afterwards, the id returned
\* and whether it raised (the UNIQUE constraint of external_id fails the
\* commit of a second row with the same external_id)
save_job(job_data) ==
  LET external_id == job_data.external_id
      job == IF external_id # <<>> THEN FirstWithExternalId(external_id) ELSE 0
  IN IF job # 0
       THEN [jobs |-> [jobs EXCEPT ![job].title = job_data.title], id |-> jobs[job].id,
             raised |-> FALSE]
     ELSE IF FirstWithExternalId(external_id) # 0
       THEN [jobs |-> jobs, id |-> 0, raised |-> TRUE]
     ELSE [jobs |-> Append(jobs, JobRow(Len(jobs) + 1, external_id, job_data.title, TRUE)),
           id |-> Len(jobs) + 1, raised |-> FALSE]

\* save_job_to_db(window, job), 1487-1525: "Job saved", or "Failed to save"
SaveJobToDb(job) ==
  /\ LET saved == save_job([external_id |-> job.Jobid, title |-> job.jobTitle])
         before == latest[job.Jobid]
     IN /\ jobs' = saved.jobs
        /\ latest' = [latest EXCEPT ![job.Jobid] =
             [op |-> "save", ok |-> ~saved.raised, id |-> saved.id,
              first_id |-> IF before.first_id = 0 THEN saved.id ELSE before.first_id]]
  /\ UNCHANGED <<since_stamp, _client, closed, created, frame, calls, last_request, lib_call,
                 gui>>

\* session.query(Job).filter_by(is_active=True).order_by(created_at.desc()):
\* the rows the saved-jobs view lists (1195) and the statistic counts (1477)
SavedJobs ==
  LET active == SelectSeq(jobs, LAMBDA job : job.is_active)
  IN [i \in 1..Len(active) |-> active[Len(active) + 1 - i]]

\* remove_saved_job(window, job_id), 1579-1594, from the Remove button of a
\* row of the saved-jobs view
RemoveSavedJob(job_id) ==
  /\ \E i \in 1..Len(SavedJobs) : SavedJobs[i].id = job_id
  /\ LET job == CHOOSE i \in 1..Len(jobs) : jobs[i].id = job_id
     IN /\ jobs' = [jobs EXCEPT ![job].is_active = FALSE]
        /\ latest' = [latest EXCEPT ![jobs[job].external_id] =
             [@ EXCEPT !.op = "remove", !.ok = TRUE, !.id = job_id]]
  /\ UNCHANGED <<since_stamp, _client, closed, created, frame, calls, last_request, lib_call,
                 gui>>

\* ---------------------------------------------------------- specification
\* the steps of the callers `threads`, which pass search_jobs the arguments
\* `args`, while the upstream answers with one of `resps`
NextOf(threads, args, resps) ==
  \/ Tick
  \/ \E t \in threads, a \in args : Call(t, a[1], a[2], a[3])
  \/ \E t \in threads : Validate(t)
  \/ \E t \in threads : Build(t)
  \/ \E t \in threads : RateLimitRead(t)
  \/ \E t \in threads : Wake(t)
  \/ \E t \in threads : Stamp(t)
  \/ \E t \in threads : GetClientCheck(t)
  \/ \E t \in threads : GetClientCreate(t)
  \/ \E t \in threads : GetClientReturn(t)
  \/ \E t \in threads : Send(t)
  \/ \E t \in threads, resp \in resps : Respond(t, resp)
  \/ \E t \in threads : Retry(t)
  \/ \E t \in threads : Parse(t)
  \/ \E t \in threads : CloseHttpClient(t)
  \/ \E t \in threads : ClientClose(t)

\* one caller, every argument and every answer
Next == NextOf({1}, Keywords \X Pages \X PageSizes, Responses)

Spec == Init /\ [][Next]_vars

\* two background search threads (gui.perform_search) with valid arguments;
\* the upstream times out, or answers with a well-formed body
ConcArguments == {<<(<<"a">>), 1, 1>>}
ConcResponses == {Timeout, Json(Body(Str(sOne), Str(sNoJobs), EmptyCommon, NoList, NoList))}
ConcNext == NextOf(Threads, ConcArguments, ConcResponses)

ConcSpec == Init /\ [][ConcNext]_vars

\* the steps a thread inside search_jobs takes by itself
Progress(t) ==
  \/ Validate(t) \/ Build(t) \/ RateLimitRead(t) \/ Wake(t) \/ Stamp(t)
  \/ GetClientCheck(t) \/ GetClientCreate(t) \/ GetClientReturn(t) \/ Send(t)
  \/ Retry(t) \/ Parse(t)

\* one caller; the clock keeps moving and the calling thread keeps running
LiveSpec == Spec /\ WF_vars(Tick) /\ WF_vars(Progress(1))

\* as LiveSpec, and client.get, which has the timeout DEFAULT_TIMEOUT, ends:
\* with a response or with an exception of httpx
AnsweredSpec ==
  LiveSpec /\ WF_vars(\E resp \in Responses : Respond(1, resp))

\* the desktop UI: the user searches, turns pages and changes the page size;
\* each search runs search_jobs in a background thread (caller 1)
GuiNext ==
  \/ Tick
  \/ ShowSearchView
  \/ \E keyword \in GuiKeywords, location \in GuiLocations : PerformSearch(keyword, location)
  \/ \E keyword \in GuiKeywords, location \in GuiLocations, exp_start \in ExperienceTexts :
       PerformAdvancedSearch(keyword, location, exp_start)
  \/ \E page \in 1..3 : GoToPage(page)
  \/ \E new_per_page \in PageSizeChoices : ChangeResultsPerPage(new_per_page)
  \/ SearchThreadCall
  \/ Validate(1)
  \/ Build(1)
  \/ RateLimitRead(1)
  \/ Wake(1)
  \/ Stamp(1)
  \/ GetClientCheck(1)
  \/ GetClientCreate(1)
  \/ GetClientReturn(1)
  \/ Send(1)
  \/ \E resp \in GuiResponses : Respond(1, resp)
  \/ Parse(1)
  \/ SearchThreadStore
  \/ SearchThreadExcept
  \/ UpdateUi
  \/ ShowError
  \/ HeldPageCalls

GuiSpec == Init /\ [][GuiNext]_vars

\* the user saves listings and removes saved ones
StoreNext ==
  \/ \E job \in SavableJobs : SaveJobToDb(job)
  \/ \E job_id \in 1..Cardinality(ExternalIds) : RemoveSavedJob(job_id)

StoreSpec == Init /\ [][StoreNext]_vars

\* application code calling the pure functions of the library, one call
\* after the other, on every argument
LibNext ==
  \/ lib_call = NoLibCall /\ \E body \in PageBodies : ConstructPage(body)
  \/ AllJobs
  \/ TotalResults
  \/ IsSuccess
  \/ lib_call = NoLibCall /\ \E a \in UrlArguments \cup TextArguments : BuildSearchUrl(a)
  \/ lib_call = NoLibCall /\ \E city_name \in CityNames : GetCityId(city_name)
  \/ GetCityNameOfId
  \/ lib_call = NoLibCall /\ \E city_id \in CityIds : GetCityName(city_id)
  \/ GetCityIdOfName
  \/ GetAllCities
  \/ lib_call = NoLibCall /\ \E query \in Queries : SearchCities(query)

LibSpec == Init /\ [][LibNext]_vars

\* ------------------------------------------------------------ properties
\* the thread's latest search_jobs invocation has ended
Finished(f) == f.pc = "idle" /\ f.result.kind # "none"

\* the arguments search_jobs must reject: keyword empty or only whitespace,
\* page below 1, results_per_page outside 1..100
BadArguments(f) ==
  \/ \A i \in 1..Len(f.keyword) : f.keyword[i] = " "
  \/ f.page < 1
  \/ f.results_per_page < 1
  \/ f.results_per_page > 100

\* C1: search_jobs rejects an empty or whitespace-only keyword, a page < 1
\* and a results_per_page outside [1,100] with a validation error
\* (ValueError), and the step that rejects them ends the invocation at once:
\* api_get is not entered, no request is sent, and the transport state (the
\* request stamp, the shared client) is left unchanged.
C1_ValidationBeforeNetwork ==
  [][\A t \in Threads :
       (frame[t].pc = "validate" /\ frame'[t].pc # "validate" /\ BadArguments(frame[t])) =>
         /\ frame'[t].pc = "idle"
         /\ frame'[t].result.kind = "error"
         /\ frame'[t].result.exc.type = "ValueError"
         /\ frame'[t].result.exc.origin = "validation"
         /\ frame'[t].sent = 0
         /\ frame'[t].outcomes = <<>>
         /\ UNCHANGED <<since_stamp, _client, closed, created, last_request>>]_vars

\* a rejected invocation that follows one which used the transport
C1_Witness ==
  /\ Finished(frame[1])
  /\ frame[1].result.exc.origin = "validation"
  /\ _client # 0
  /\ since_stamp < LongAgo

Timeouts(n) == [i \in 1..n |-> "TimeoutException"]
WellFormed(body) == body.t = "dict" /\ SearchResultsValid(body)

\* C2: with N = MAX_RETRIES, an invocation whose first N-1 attempts time out
\* and whose attempt N is answered with a well-formed body returns the page
\* built from that body after N requests; an invocation whose N attempts all
\* time out raises the exception of the last attempt, a transport error,
\* after exactly N requests; no invocation makes more than N attempts and
\* none gives up on a transport error before attempt N.
C2_RetryUntilAttemptN ==
  \A t \in Threads :
    LET f == frame[t] IN
    Finished(f) =>
      /\ Len(f.outcomes) <= MAX_RETRIES
      /\ (f.outcomes = Timeouts(MAX_RETRIES - 1) \o <<"ok">> /\ WellFormed(f.response.body)) =>
           /\ f.sent = MAX_RETRIES
           /\ f.result = Returned(SearchResults(f.response.body))
      /\ f.outcomes = Timeouts(MAX_RETRIES) =>
           /\ f.sent = MAX_RETRIES
           /\ f.result.kind = "error"
           /\ f.result.exc.type = f.outcomes[MAX_RETRIES]
           /\ IsInstance(f.result.exc, "HTTPError")
      /\ f.result.exc.origin = "transport" =>
           /\ Len(f.outcomes) = MAX_RETRIES
           /\ f.sent = MAX_RETRIES
           /\ f.result.exc.type = f.outcomes[MAX_RETRIES]

\* two timeouts, then the page
C2_Witness ==
  /\ Finished(frame[1])
  /\ frame[1].outcomes = Timeouts(MAX_RETRIES - 1) \o <<"ok">>
  /\ frame[1].result.kind = "page"
  /\ frame[1].waits = MAX_RETRIES - 1

\* C3: an attempt of api_get that ends in an API error (RuntimeError) or in
\* an invalid-JSON error (ValueError) is the invocation's last: no backoff
\* wait and no attempt follows it, and that error is raised to the caller;
\* when it is the first attempt, exactly one request was sent.
C3_NoRetryOfApiOrFormatError ==
  \A t \in Threads :
    LET f == frame[t] IN
    \A i \in 1..Len(f.outcomes) :
      f.outcomes[i] \in {"RuntimeError", "ValueError"} =>
        /\ i = Len(f.outcomes)
        /\ Finished(f)
        /\ f.result.kind = "error"
        /\ f.result.exc.type = f.outcomes[i]
        /\ f.result.exc.origin \in {"api", "json"}
        /\ f.sent = i
        /\ f.waits = i - 1

\* an API error on the first attempt
C3_Witness ==
  /\ Finished(frame[1])
  /\ frame[1].outcomes = <<"RuntimeError">>
  /\ frame[1].result.exc.origin = "api"
  /\ frame[1].sent = 1
  /\ frame[1].waits = 0

\* C4: with one caller, any two consecutive requests are sent at least
\* MIN_REQUEST_INTERVAL apart, whatever URL each one targets and whether
\* they belong to one invocation (retries) or to two.
C4_MinimumInterval ==
  last_request.count >= 2 => last_request.gap >= MIN_REQUEST_INTERVAL

\* a request that rate_limit held back until exactly the interval had passed
C4_Witness ==
  /\ last_request.count >= 2
  /\ last_request.gap = MIN_REQUEST_INTERVAL
  /\ frame[1].slept
  /\ frame[1].pc = "await"

\* C5: when two threads are inside api_get at once, no interleaving of their
\* rate_limit steps lets two requests leave less than MIN_REQUEST_INTERVAL
\* apart.
C5_ConcurrentCadence ==
  ~(last_request.count >= 2 /\ last_request.gap < MIN_REQUEST_INTERVAL)

\* C6: an attempt that reaches rate_limit sooner than MIN_REQUEST_INTERVAL
\* after the previous stamp is held back, not dropped and not failed: it
\* leaves rate_limit, sets a new stamp and sends its request, no sooner than
\* the interval after the request before it.
C6_BlockedNotDropped ==
  (frame[1].pc = "rate_limit" /\ since_stamp < MIN_REQUEST_INTERVAL)
    ~> (/\ frame[1].pc = "await"
        /\ frame[1].slept
        /\ since_stamp = 0
        /\ last_request.thread = 1
        /\ last_request.age = 0
        /\ last_request.gap >= MIN_REQUEST_INTERVAL)

\* the first attempt of an invocation has slept in rate_limit and has sent
C6_Witness ==
  /\ frame[1].pc = "await"
  /\ frame[1].slept
  /\ frame[1].attempt_number = 1
  /\ last_request.age = 0
  /\ since_stamp = 0

\* C7 as claimed: every well-formed response makes search_jobs return the
\* page, whether or not the page is a success.
C7_EveryWellFormedReturned ==
  \A t \in Threads :
    LET f == frame[t] IN
    (Finished(f) /\ f.response.kind = "json" /\ WellFormed(f.response.body)) =>
      f.result.kind = "page"

\* C7 as amended: a well-formed response whose statuscode is "1" or empty
\* makes search_jobs return the page built from it, whether or not
\* is_success() holds of the page; a well-formed response with any other
\* statuscode makes it raise the API error carrying the upstream message.
C7_WellFormedReturnedUnlessApiError ==
  \A t \in Threads :
    LET f == frame[t]
        body == f.response.body
    IN (Finished(f) /\ f.response.kind = "json" /\ WellFormed(body)) =>
         IF body.statuscode.s \in {sOne, <<>>}
           THEN f.result = Returned(SearchResults(body))
           ELSE f.result = Raised(Exc("RuntimeError", "api", body.message))

\* a page that is not a success was returned
C7_Witness ==
  /\ Finished(frame[1])
  /\ frame[1].result.kind = "page"
  /\ ~is_success(frame[1].result.page)

\* C8: whenever api_get returns a decoded body that does not match the
\* Result Page shape, search_jobs raises the 'Invalid API response format'
\* ValueError; it returns no page and raises no other kind of error.
C8_FormatErrorOnShapeMismatch ==
  \A t \in Threads :
    LET f == frame[t] IN
    (/\ Finished(f)
     /\ f.outcomes # <<>>
     /\ f.outcomes[Len(f.outcomes)] = "ok"
     /\ ~WellFormed(f.response.body)) =>
      f.result = Raised(Exc("ValueError", "format", Absent))

\* the kind of error an exception stands for, by the statement that raised it
Kind(exc) ==
  CASE exc.origin = "validation" -> "validation"
    [] exc.origin = "transport" -> "transport"
    [] exc.origin = "api" -> "api"
    [] exc.origin \in {"json", "format"} -> "format"
    [] OTHER -> "other"
FourKinds == {"validation", "transport", "api", "format"}

\* every exception search_jobs and api_get raise on some argument or answer
Raisable ==
  ({ValidationRaises(a[1], a[2], a[3]) : a \in Keywords \X Pages \X PageSizes}
   \cup {ApiGetRaises(r) : r \in Responses}
   \cup {ParseRaises(b) : b \in Bodies}) \ {NoExc}

\* C9: validation, transport, API and format errors reach the caller as
\* pairwise different exception types, and no failure is swallowed: a page
\* is returned only when the last attempt was answered with a well-formed
\* body.
C9_ErrorKindsDistinguishable ==
  \A t \in Threads :
    LET f == frame[t] IN
    Finished(f) =>
      /\ (f.result.kind = "error" /\ Kind(f.result.exc) \in FourKinds) =>
           \A e \in Raisable :
             (Kind(e) \in FourKinds /\ Kind(e) # Kind(f.result.exc)) =>
               e.type # f.result.exc.type
      /\ f.result.kind = "page" =>
           /\ f.outcomes # <<>>
           /\ f.outcomes[Len(f.outcomes)] = "ok"
           /\ WellFormed(f.response.body)

\* api_get has returned `body` to search_jobs
ApiGetReturned(f, body) ==
  \/ f.pc = "parse" /\ f.response_data = body
  \/ Finished(f) /\ f.result.exc.origin \in {"none", "format", "unpack"}
\* api_get has raised the API error with the body's message, or the placeholder
ApiErrorRaised(f, body) ==
  /\ Finished(f)
  /\ f.result = Raised(Exc("RuntimeError", "api",
                           IF body.message.t = "absent" THEN Str(sUnknownApiError)
                                                        ELSE body.message))

\* C10 as claimed: api_get raises the API error exactly when the body is a
\* dict whose statuscode is present and not "1"; it returns every other
\* decoded body unchanged.
C10_ApiErrorIffPresentNonSuccess ==
  \A t \in Threads :
    LET f == frame[t]
        body == f.response.body
    IN f.response.kind = "json" =>
         IF body.t = "dict" /\ body.statuscode.t # "absent" /\ body.statuscode # Str(sOne)
           THEN ApiErrorRaised(f, body)
           ELSE ApiGetReturned(f, body)

\* C10 as amended: api_get raises the API error exactly when the body is a
\* dict whose statuscode is a non-empty string other than "1", a non-zero
\* number or true; the message is the body's message if present, else
\* 'Unknown API error'; every other decoded body (statuscode absent, null,
\* empty, zero, false or "1", or no dict at all) is returned unchanged.
C10_ApiErrorIffTruthyNonSuccess ==
  \A t \in Threads :
    LET f == frame[t]
        body == f.response.body
        code == body.statuscode
    IN f.response.kind = "json" =>
         IF /\ body.t = "dict"
            /\ \/ code.t = "str" /\ code.s # <<>> /\ code.s # sOne
               \/ code.t = "int" /\ code.n # 0
               \/ code.t = "bool" /\ code.n = 1
           THEN ApiErrorRaised(f, body)
           ELSE ApiGetReturned(f, body)

\* an API error without a message in the body
C10_Witness ==
  /\ Finished(frame[1])
  /\ frame[1].response.body.message.t = "absent"
  /\ frame[1].result = Raised(Exc("RuntimeError", "api", Str(sUnknownApiError)))

\* the client c exists and is open
ClientOpen(c) == c # 0 /\ c \notin closed

\* C11: with one caller, no client is created before get_http_client first
\* runs; a get_http_client that finds an open client returns that client
\* and creates none, so calls with no close between them return the same
\* client; close_http_client closes the client and forgets it; the first
\* get_http_client after the client was closed, by close_http_client or by
\* its holder, creates a new client; get_http_client returns no closed
\* client; a closed client is never open again.
C11_ClientLifecycle ==
  /\ [](\A t \in Threads :
         frame[t].pc = "send" =>
           /\ ClientOpen(frame[t].client)
           /\ last_request.count > 0 =>
                IF last_request.client \in closed
                  THEN frame[t].client = created /\ frame[t].client # last_request.client
                  ELSE frame[t].client = last_request.client)
  /\ [][/\ closed \subseteq closed'
        /\ created' # created =>
             /\ \E t \in Threads : frame[t].pc = "create_client"
             /\ ~ClientOpen(_client)
             /\ created' = created + 1
             /\ _client' = created'
             /\ _client' \notin closed'
        /\ (_client' # _client /\ created' = created) =>
             /\ ClientOpen(_client)
             /\ _client' = 0
             /\ closed' = closed \cup {_client}
        /\ \A t \in Threads :
             /\ (frame[t].pc = "get_client" /\ frame'[t].pc # "get_client"
                   /\ ClientOpen(_client)) =>
                  /\ frame'[t].pc = "return_client"
                  /\ UNCHANGED <<_client, created, closed>>
             /\ (frame[t].pc = "return_client" /\ frame'[t].pc # "return_client") =>
                  /\ frame'[t].client = _client
                  /\ ClientOpen(_client)]_vars

\* the client of the previous request was closed, and get_http_client has
\* created a second one and returned it
C11_Witness ==
  /\ frame[1].pc = "send"
  /\ frame[1].client = 2
  /\ _client = 2
  /\ closed = {1}
  /\ last_request.client = 1

\* the phase of search_jobs a position belongs to: 1 Validating, 2 Building,
\* 3 Requesting (inside api_get), 4 Parsing, 5 ended (or not begun)
PhaseOf(pc) ==
  CASE pc = "validate" -> 1
    [] pc = "build" -> 2
    [] pc = "parse" -> 4
    [] pc = "idle" -> 5
    [] OTHER -> 3

\* C12: an invocation of search_jobs passes through Validating, Building,
\* Requesting, Parsing in this order and never goes back: Building is
\* entered only from Validating with arguments that pass the checks,
\* Requesting only from Building with the URL built (no request is sent
\* before), Parsing only from Requesting when api_get returned a decoded
\* body; the invocation ends with a page, only from Parsing, or with an
\* error, never with both or neither.
C12_PhaseOrder ==
  /\ [](\A t \in Threads :
         LET f == frame[t] IN
         /\ PhaseOf(f.pc) \in {1, 2} => f.sent = 0 /\ f.outcomes = <<>> /\ f.search_url = NoUrl
         /\ PhaseOf(f.pc) \in {3, 4} => f.search_url # NoUrl /\ ~BadArguments(f)
         /\ f.pc = "parse" =>
              /\ f.response.kind = "json"
              /\ f.response_data = f.response.body
              /\ f.outcomes[Len(f.outcomes)] = "ok"
         /\ f.result.kind \in {"page", "error"} <=> Finished(f)
         /\ f.result.kind = "page" <=> f.result.page # NoPage
         /\ f.result.kind = "error" <=> f.result.exc # NoExc)
  /\ [][\A t \in Threads :
          LET f == frame[t]
              g == frame'[t]
              p == PhaseOf(f.pc)
              q == PhaseOf(g.pc)
          IN p # q =>
               CASE p = 1 -> \/ q = 2 /\ ~BadArguments(f)
                             \/ q = 5 /\ g.result.kind = "error"
                 [] p = 2 -> q = 3 /\ g.search_url # NoUrl /\ g.sent = 0
                 [] p = 3 -> \/ q = 4 /\ g.response.kind = "json"
                             \/ q = 5 /\ g.result.kind = "error"
                 [] p = 4 -> q = 5 /\ g.result.kind \in {"page", "error"}
                 [] p = 5 -> q = 1 /\ g.result.kind = "none"]_vars

\* an invocation that stayed in Requesting for three attempts, then parsed
\* and returned its page
C12_Witness ==
  /\ Finished(frame[1])
  /\ frame[1].result.kind = "page"
  /\ frame[1].sent = MAX_RETRIES
  /\ frame[1].slept
  /\ Len(frame[1].result.page.data) = 2

\* the letter c in the other case, or c itself when it is no letter
OtherCase(c) ==
  IF \E i \in 1..26 : UpperCase[i] = c THEN LowerCase[CHOOSE i \in 1..26 : UpperCase[i] = c]
  ELSE IF \E i \in 1..26 : LowerCase[i] = c THEN UpperCase[CHOOSE i \in 1..26 : LowerCase[i] = c]
  ELSE c

\* the strings a and b are equal when the case of letters is ignored
EqualIgnoringCase(a, b) ==
  /\ Len(a) = Len(b)
  /\ \A i \in 1..Len(a) : a[i] = b[i] \/ a[i] = OtherCase(b[i])

\* C13: is_success() of a Result Page is true exactly when its statuscode
\* is "1" and its message is "success" in any mix of upper and lower case.
C13_SuccessIffBoth ==
  lib_call.fn = "is_success" =>
    (lib_call.is_success <=>
       /\ lib_call.results.statuscode = <<"1">>
       /\ EqualIgnoringCase(lib_call.results.message, <<"s", "u", "c", "c", "e", "s", "s">>))

\* is_success() was false of a page whose message is "SUCCESS" and whose
\* statuscode is not "1"
C13_Witness ==
  /\ lib_call.fn = "is_success"
  /\ ~lib_call.is_success
  /\ lib_call.results.message = sSuccessUpper
  /\ lib_call.results.statuscode = sZero

\* C14: all_jobs of a Result Page is its regular listings followed by its
\* premium listings, each in the order of the body's "data" and
\* "premiumData": every listing is there once per occurrence, none is
\* dropped, moved or merged with an equal one.
C14_AllJobsRegularThenPremium ==
  lib_call.fn = "all_jobs" =>
    LET page == lib_call.results
        body == lib_call.body
        n == Len(page.data)
        m == Len(page.premiumData)
    IN /\ Len(lib_call.all_jobs) = n + m
       /\ n = Len(body.data.items) /\ m = Len(body.premiumData.items)
       /\ \A i \in 1..n :
            /\ lib_call.all_jobs[i] = page.data[i]
            /\ page.data[i].Jobid = Strip(body.data.items[i].Jobid.s)
       /\ \A j \in 1..m :
            /\ lib_call.all_jobs[n + j] = page.premiumData[j]
            /\ page.premiumData[j].Jobid = Strip(body.premiumData.items[j].Jobid.s)

\* all_jobs of a page with the same listing twice in "data" and once more,
\* before another, in "premiumData"
C14_Witness ==
  /\ lib_call.fn = "all_jobs"
  /\ Len(lib_call.all_jobs) = 4
  /\ lib_call.all_jobs[1] = lib_call.all_jobs[2]
  /\ lib_call.all_jobs[2] = lib_call.all_jobs[3]
  /\ lib_call.all_jobs[3] # lib_call.all_jobs[4]

\* C15: total_results of a Result Page is len(data) + len(premiumData),
\* which is len(all_jobs); it does not depend on common.total_records_found,
\* and total_records_found is the count of the body whatever the listings.
C15_TotalResultsCountsThisPage ==
  lib_call.fn = "total_results" =>
    LET page == lib_call.results IN
    /\ lib_call.total_results = Len(page.data) + Len(page.premiumData)
    /\ lib_call.total_results = Len(all_jobs(page))
    /\ \A found \in {0, 1, 2, 3, 37} :
         total_results([page EXCEPT !.common.total_records_found = found])
           = lib_call.total_results
    /\ \A data \in {<<>>, page.premiumData, page.data \o page.data} :
         [page EXCEPT !.data = data].common.total_records_found
           = page.common.total_records_found
    /\ page.common.total_records_found =
         (IF lib_call.body.common.total_records_found.t = "absent" THEN 0
          ELSE IF lib_call.body.common.total_records_found.t = "str"
            THEN ParseDigits(lib_call.body.common.total_records_found.s)
          ELSE lib_call.body.common.total_records_found.n)

\* three listings on a page of which the upstream reports 37
C15_Witness ==
  /\ lib_call.fn = "total_results"
  /\ lib_call.total_results = 3
  /\ lib_call.results.common.total_records_found = 37

\* what SearchResults(**body) gives for the lists and the counts of `body`:
\* an absent list as the empty list, an absent count as 0
AbsencesDefaulted ==
  LET body == lib_call.body
      page == lib_call.results
  IN /\ lib_call.exc = NoExc
     /\ body.data.t = "absent" => page.data = <<>>
     /\ body.data.t = "list" => Len(page.data) = Len(body.data.items)
     /\ body.premiumData.t = "absent" => page.premiumData = <<>>
     /\ body.premiumData.t = "list" => Len(page.premiumData) = Len(body.premiumData.items)
     /\ body.common.total_records_found.t = "absent" => page.common.total_records_found = 0
     /\ body.common.totalpages.t = "absent" => page.common.totalpages = 0
     /\ body.common.total_vacancies.t = "absent" => page.common.total_vacancies = 0

\* C16 as claimed: a body whose message, statuscode and present parts are of
\* the right type is constructed into a Result Page whichever of "data",
\* "premiumData" and the summary counts it lacks: the absent list is empty,
\* the absent count is 0.
C16_AbsenceNeverFormatError ==
  (lib_call.fn = "SearchResults" /\ lib_call.body \in SparseBodies) => AbsencesDefaulted

\* C16 as amended: such a body is constructed into a Result Page, with its
\* absent lists empty and its absent counts 0, when it has the "common"
\* object, even an empty one; a body without "common" is refused with a
\* ValidationError.
C16_AbsenceDefaultsWithinCommon ==
  (lib_call.fn = "SearchResults" /\ lib_call.body \in SparseBodies) =>
    IF lib_call.body.common.t = "absent"
      THEN lib_call.exc.type = "ValidationError" /\ lib_call.results = NoPage
      ELSE AbsencesDefaulted

\* a page from a body without "data" and with an empty "common"
C16_Witness ==
  /\ lib_call.fn = "SearchResults"
  /\ lib_call.exc = NoExc
  /\ lib_call.body.data.t = "absent"
  /\ lib_call.body.common = EmptyCommon
  /\ Len(lib_call.results.premiumData) = 2
  /\ lib_call.results.common.totalpages = 0

\* C17: no listing of a page that search_jobs returns has an empty Jobid: a
\* body with a listing whose Jobid is empty, or empty once stripped, is not
\* accepted.
C17_JobidNonEmpty ==
  \A t \in Threads :
    frame[t].result.kind = "page" =>
      \A i \in 1..Len(all_jobs(frame[t].result.page)) :
        all_jobs(frame[t].result.page)[i].Jobid # <<>>

\* the place of the first c in the string s, 0 when s has no c
IndexOf(s, c) ==
  IF \E i \in 1..Len(s) : s[i] = c
    THEN CHOOSE i \in 1..Len(s) : s[i] = c /\ \A j \in 1..(i - 1) : s[j] # c
    ELSE 0

\* the pieces of the string s between the occurrences of c
RECURSIVE SplitOn(_, _)
SplitOn(s, c) ==
  IF IndexOf(s, c) = 0 THEN <<s>>
  ELSE <<SubSeq(s, 1, IndexOf(s, c) - 1)>> \o SplitOn(SubSeq(s, IndexOf(s, c) + 1, Len(s)), c)

\* the parameters a server reads from a URL: what follows the first "?",
\* cut at every "&", each piece cut at its first "="
QueryFields(url) ==
  LET pieces == SplitOn(SubSeq(url, IndexOf(url, "?") + 1, Len(url)), "&")
  IN [i \in 1..Len(pieces) |->
        [name |-> SubSeq(pieces[i], 1, IndexOf(pieces[i], "=") - 1),
         value |-> SubSeq(pieces[i], IndexOf(pieces[i], "=") + 1, Len(pieces[i]))]]

\* the URL has the parameter `name` once, with this value
HasOnce(url, name, value) ==
  LET fields == QueryFields(url)
      at == {i \in 1..Len(fields) : fields[i].name = name}
  IN Cardinality(at) = 1 /\ \A i \in at : fields[i].value = value

\* the integer a decimal numeral stands for
ParseInt(s) == IF s # <<>> /\ Head(s) = "-" THEN 0 - ParseDigits(Tail(s)) ELSE ParseDigits(s)

\* the string is "<start>/<end>", both written as decimal numerals
IsStartSlashEnd(s, start, end) ==
  LET ends == SplitOn(s, "/")
  IN /\ Len(ends) = 2
     /\ \A k \in 1..2 : /\ ends[k] # <<>> /\ ends[k] # <<"-">>
                          /\ \A i \in 1..Len(ends[k]) :
                               ends[k][i] \in Digits \/ (i = 1 /\ ends[k][i] = "-")
     /\ ParseInt(ends[1]) = start /\ ParseInt(ends[2]) = end
     /\ s = IntToStr(start) \o <<"/">> \o IntToStr(end)

\* the three ranges of the arguments a: parameter name, start, end
RangesOf(a) ==
  { <<<<"q", "A", "g", "e">>, a.age_start, a.age_end>>,
    <<<<"S", "a", "l", "a", "r", "y">>, a.salary_start, a.salary_end>>,
    <<<<"e", "x", "p", "e", "r", "i", "e", "n", "c", "e">>, a.experience_start, a.experience_end>> }

\* C18 as claimed: build_search_url writes each of qAge, Salary and
\* experience empty when both endpoints of its range are zero, and as
\* "<start>/<end>" when at least one endpoint is not zero.
C18_RangeWrittenWhenNonzero ==
  lib_call.fn = "build_search_url" =>
    \A r \in RangesOf(lib_call.args) :
      IF r[2] = 0 /\ r[3] = 0
        THEN HasOnce(lib_call.search_url, r[1], <<>>)
        ELSE \E value \in {IntToStr(r[2]) \o <<"/">> \o IntToStr(r[3])} :
               /\ HasOnce(lib_call.search_url, r[1], value)
               /\ IsStartSlashEnd(value, r[2], r[3])

\* C18 as amended: build_search_url writes each of qAge, Salary and
\* experience as "<start>/<end>", both endpoints in decimal, when at least
\* one endpoint is greater than zero (the other may be zero, negative or
\* smaller than the start), and empty when neither is: both zero, or one or
\* both negative and none positive.
C18_RangeWrittenWhenPositive ==
  lib_call.fn = "build_search_url" =>
    \A r \in RangesOf(lib_call.args) :
      IF r[2] <= 0 /\ r[3] <= 0
        THEN HasOnce(lib_call.search_url, r[1], <<>>)
        ELSE \E value \in {IntToStr(r[2]) \o <<"/">> \o IntToStr(r[3])} :
               /\ HasOnce(lib_call.search_url, r[1], value)
               /\ IsStartSlashEnd(value, r[2], r[3])

\* an age range from 15 down to a negative end, no salary range, an
\* experience range with a zero start
C18_Witness ==
  /\ lib_call.fn = "build_search_url"
  /\ lib_call.args.age_start = 15 /\ lib_call.args.age_end = -2
  /\ lib_call.args.salary_start = 0 /\ lib_call.args.salary_end = 0
  /\ lib_call.args.experience_start = 0 /\ lib_call.args.experience_end = 15
  /\ HasOnce(lib_call.search_url, <<"q", "A", "g", "e">>, <<"1", "5", "/", "-", "2">>)
  /\ HasOnce(lib_call.search_url, <<"e", "x", "p", "e", "r", "i", "e", "n", "c", "e">>, <<"0", "/", "1", "5">>)

\* the entries of the table whose name is `name` once the blanks around it
\* are dropped and the case of letters is ignored
EntriesNamed(name) ==
  {i \in 1..Len(CITY_ID_MAP) : EqualIgnoringCase(Strip(name), CITY_ID_MAP[i].name)}

\* C19: build_search_url returns a URL for every location: with the
\* parameter location empty when the table has no entry of that name (the
\* empty name and the blank name among them), and with the id of the entry
\* when it has one.
C19_UnknownLocationEmpty ==
  lib_call.fn = "build_search_url" =>
    /\ SubSeq(lib_call.search_url, 1, Len(API_BASE_URL)) = API_BASE_URL
    /\ IF EntriesNamed(lib_call.args.location) = {}
         THEN HasOnce(lib_call.search_url, <<"l", "o", "c", "a", "t", "i", "o", "n">>, <<>>)
         ELSE \A i \in EntriesNamed(lib_call.args.location) :
                HasOnce(lib_call.search_url, <<"l", "o", "c", "a", "t", "i", "o", "n">>, CITY_ID_MAP[i].id)

\* a location the table has not, encoded empty
C19_Witness ==
  /\ lib_call.fn = "build_search_url"
  /\ lib_call.args.location = <<"P", "a", "r", "i", "s">>
  /\ HasOnce(lib_call.search_url, <<"l", "o", "c", "a", "t", "i", "o", "n">>, <<>>)

\* no two entries of the table share an id, and no two share a name, the
\* case of letters ignored
TableKeysUnique ==
  \A i, j \in 1..Len(CITY_ID_MAP) :
    (CITY_ID_MAP[i].id = CITY_ID_MAP[j].id
       \/ EqualIgnoringCase(CITY_ID_MAP[i].name, CITY_ID_MAP[j].name)) => i = j

SchemaNames ==
  <<<<"I", "c", "a", "t">>, <<"i", "n", "d", "u", "s", "t", "r", "y">>,
    <<"c", "a", "t", "e", "g", "o", "r", "y">>, <<"o", "r", "g">>,
    <<"j", "o", "b", "N", "a", "t", "u", "r", "e">>, <<"F", "c", "a", "t">>,
    <<"l", "o", "c", "a", "t", "i", "o", "n">>, <<"Q", "o", "t">>,
    <<"j", "o", "b", "T", "y", "p", "e">>, <<"j", "o", "b", "L", "e", "v", "e", "l">>,
    <<"p", "o", "s", "t", "e", "d", "W", "i", "t", "h", "i", "n">>,
    <<"d", "e", "a", "d", "l", "i", "n", "e">>, <<"k", "e", "y", "w", "o", "r", "d">>,
    <<"p", "g">>, <<"q", "A", "g", "e">>, <<"S", "a", "l", "a", "r", "y">>,
    <<"e", "x", "p", "e", "r", "i", "e", "n", "c", "e">>, <<"g", "e", "n", "d", "e", "r">>,
    <<"M", "E", "x", "p">>, <<"g", "e", "n", "d", "e", "r", "B">>,
    <<"M", "P", "o", "s", "t", "i", "n", "g", "s">>, <<"M", "C", "a", "t">>,
    <<"v", "e", "r", "s", "i", "o", "n">>, <<"r", "p", "p">>,
    <<"N", "e", "w", "s", "p", "a", "p", "e", "r">>, <<"a", "r", "m", "y", "p">>,
    <<"Q", "D", "i", "s", "a", "b", "l", "e", "P", "e", "r", "s", "o", "n">>, <<"p", "w", "d">>,
    <<"w", "o", "r", "k", "p", "l", "a", "c", "e">>,
    <<"f", "a", "c", "i", "l", "i", "t", "i", "e", "s", "F", "o", "r", "P", "W", "D">>,
    <<"S", "a", "v", "e", "F", "i", "l", "t", "e", "r", "L", "i", "s", "t">>,
    <<"U", "s", "e", "r", "F", "i", "l", "t", "e", "r", "N", "a", "m", "e">>,
    <<"H", "U", "s", "e", "r", "F", "i", "l", "t", "e", "r", "N", "a", "m", "e">>,
    <<"e", "a", "r", "l", "y", "J", "o", "b", "A", "c", "c", "e", "s", "s">>,
    <<"i", "s", "P", "r", "o">>, <<"T", "o", "g", "g", "l", "e", "J", "o", "b", "s">>,
    <<"i", "s", "F", "r", "e", "s", "h", "e", "r">>>>

\* the parameters this client never sets
NeverSet ==
  {<<"I", "c", "a", "t">>, <<"i", "n", "d", "u", "s", "t", "r", "y">>,
   <<"c", "a", "t", "e", "g", "o", "r", "y">>, <<"o", "r", "g">>,
   <<"j", "o", "b", "N", "a", "t", "u", "r", "e">>, <<"F", "c", "a", "t">>, <<"Q", "o", "t">>,
   <<"d", "e", "a", "d", "l", "i", "n", "e">>, <<"M", "E", "x", "p">>,
   <<"g", "e", "n", "d", "e", "r", "B">>, <<"M", "P", "o", "s", "t", "i", "n", "g", "s">>,
   <<"M", "C", "a", "t">>, <<"v", "e", "r", "s", "i", "o", "n">>,
   <<"N", "e", "w", "s", "p", "a", "p", "e", "r">>,
   <<"Q", "D", "i", "s", "a", "b", "l", "e", "P", "e", "r", "s", "o", "n">>, <<"p", "w", "d">>,
   <<"S", "a", "v", "e", "F", "i", "l", "t", "e", "r", "L", "i", "s", "t">>,
   <<"U", "s", "e", "r", "F", "i", "l", "t", "e", "r", "N", "a", "m", "e">>,
   <<"H", "U", "s", "e", "r", "F", "i", "l", "t", "e", "r", "N", "a", "m", "e">>,
   <<"e", "a", "r", "l", "y", "J", "o", "b", "A", "c", "c", "e", "s", "s">>}

\* the characters the table of QuoteChar writes as %XX
Escaped ==
  {"!", "#", "$", "%", "&", "'", "(", ")", "*", "+", ",", "/", ":", ";", "<", "=", ">",
   "?", "@", "[", "]", "^", "{", "|", "}"}

\* what a server reads from a value of a query string: "+" is a blank and
\* %XX is the character of that code
RECURSIVE UnquotePlus(_)
UnquotePlus(s) ==
  IF s = <<>> THEN <<>>
  ELSE IF Head(s) = "+" THEN <<" ">> \o UnquotePlus(Tail(s))
  ELSE IF Head(s) = "%" /\ Len(s) >= 3 /\ \E c \in Escaped : QuoteChar(c) = SubSeq(s, 1, 3)
    THEN <<CHOOSE c \in Escaped : QuoteChar(c) = SubSeq(s, 1, 3)>>
           \o UnquotePlus(SubSeq(s, 4, Len(s)))
  ELSE <<Head(s)>> \o UnquotePlus(Tail(s))

\* the value of the parameter `name` in the fields of a query string
ValueOf(fields, name) ==
  fields[CHOOSE i \in 1..Len(fields) : fields[i].name = name].value

\* C21: for every combination of inputs the query string of
\* build_search_url has the parameters of the upstream schema, each once and
\* in the schema's order; a parameter that is not set is there with an empty
\* value; keyword, job type and job level are escaped, so the server reads
\* back the text that was passed and no text adds, removes or splits a
\* parameter.
C21_FixedSchemaEscapedTexts ==
  lib_call.fn = "build_search_url" =>
    LET fields == QueryFields(lib_call.search_url)
        a == lib_call.args
    IN /\ [i \in 1..Len(fields) |-> fields[i].name] = SchemaNames
       /\ \A i \in 1..Len(fields) :
            /\ \A k \in 1..Len(fields[i].value) : fields[i].value[k] \notin {"&", "=", "?", "#"}
            /\ fields[i].name \in NeverSet => fields[i].value = <<>>
       /\ UnquotePlus(ValueOf(fields, <<"k", "e", "y", "w", "o", "r", "d">>)) = a.keyword
       /\ UnquotePlus(ValueOf(fields, <<"j", "o", "b", "T", "y", "p", "e">>)) = a.job_type
       /\ UnquotePlus(ValueOf(fields, <<"j", "o", "b", "L", "e", "v", "e", "l">>)) = a.job_level
       /\ ValueOf(fields, <<"p", "o", "s", "t", "e", "d", "W", "i", "t", "h", "i", "n">>) = a.posted_within
       /\ ValueOf(fields, <<"g", "e", "n", "d", "e", "r">>) = a.gender
       /\ ValueOf(fields, <<"a", "r", "m", "y", "p">>) = a.armyp
       /\ ValueOf(fields, <<"w", "o", "r", "k", "p", "l", "a", "c", "e">>) = a.workplace
       /\ ValueOf(fields, <<"f", "a", "c", "i", "l", "i", "t", "i", "e", "s", "F", "o", "r", "P", "W", "D">>) = a.facilities_for_pwd
       /\ ValueOf(fields, <<"p", "g">>) = IntToStr(a.page)
       /\ ValueOf(fields, <<"r", "p", "p">>) = IntToStr(a.results_per_page)

\* a keyword that reads as a second page parameter, a job type with a blank
\* and no job level: 37 parameters, the keyword escaped, jobLevel empty
C21_Witness ==
  /\ lib_call.fn = "build_search_url"
  /\ lib_call.args.keyword = <<"a", "&", "p", "g", "=", "9">>
  /\ lib_call.args.job_type = <<"a", " ", "b">>
  /\ lib_call.args.job_level = <<>>
  /\ Len(QueryFields(lib_call.search_url)) = 37
  /\ HasOnce(lib_call.search_url, <<"k", "e", "y", "w", "o", "r", "d">>,
             <<"a", "%", "2", "6", "p", "g", "%", "3", "D", "9">>)
  /\ HasOnce(lib_call.search_url, <<"j", "o", "b", "T", "y", "p", "e">>, <<"a", "+", "b">>)
  /\ HasOnce(lib_call.search_url, <<"j", "o", "b", "L", "e", "v", "e", "l">>, <<>>)
  /\ HasOnce(lib_call.search_url, <<"p", "g">>, <<"1">>)

C30_SearchMatchesSubstring ==
  lib_call.fn = "search_cities" =>
    IF Strip(lib_call.query) = <<>>
      THEN lib_call.cities = <<>>
      ELSE lib_call.cities =
             SelectSeq(CITY_ID_MAP,
                       LAMBDA city : Contains(Lower(city.name), Lower(Strip(lib_call.query))))

\* C24: every invocation of search_jobs ends, returning a page or raising,
\* whatever client.get ends with on each attempt, and no invocation sends
\* more than MAX_RETRIES requests.
C24_TerminatesWithinMaxRetries ==
  /\ [](\A t \in Threads : frame[t].sent <= MAX_RETRIES)
  /\ \A t \in {1} :
       (frame[t].pc # "idle") ~> (frame[t].pc = "idle" /\ frame[t].result.kind # "none")

\* an invocation that ended after MAX_RETRIES requests, failed in three ways
C24_Witness ==
  /\ Finished(frame[1])
  /\ frame[1].sent = MAX_RETRIES
  /\ frame[1].outcomes = <<"TimeoutException", "ConnectError", "HTTPStatusError">>
  /\ frame[1].result.kind = "error"

\* C27: an attempt whose response has an HTTP error status is retried like
\* a transport failure: before attempt MAX_RETRIES the invocation goes on,
\* through a backoff wait, to another attempt; at attempt MAX_RETRIES the
\* invocation ends and raises that attempt's HTTPStatusError, not an API
\* error and not a format error, after MAX_RETRIES requests.
C27_StatusErrorRetriedThenRaised ==
  \A t \in Threads :
    LET f == frame[t]
        n == Len(f.outcomes)
    IN (n > 0 /\ f.outcomes[n] = "HTTPStatusError") =>
         IF n < MAX_RETRIES
           THEN /\ f.pc # "idle"
                /\ f.waits = n
                /\ f.pc = "backoff" => f.sleep_left <= WaitExponential(n)
           ELSE /\ n = MAX_RETRIES
                /\ Finished(f)
                /\ f.sent = MAX_RETRIES
                /\ f.waits = MAX_RETRIES - 1
                /\ f.result = Raised(Exc("HTTPStatusError", "transport", Absent))
                /\ IsInstance(f.result.exc, "HTTPError")
                /\ ~IsInstance(f.result.exc, "RuntimeError")
                /\ ~IsInstance(f.result.exc, "ValueError")

\* three attempts, each answered with an HTTP error status
C27_Witness ==
  /\ Finished(frame[1])
  /\ frame[1].outcomes = <<"HTTPStatusError", "HTTPStatusError", "HTTPStatusError">>
  /\ frame[1].result.exc.type = "HTTPStatusError"
  /\ frame[1].waits = 2

\* the backoff wait that begins in this step, after failed attempt k
BackoffBegins(t, k) ==
  /\ frame[t].pc = "await"
  /\ frame'[t].pc = "backoff"
  /\ frame[t].attempt_number = k

\* C25: the wait api_get makes after failed attempt k, before attempt k + 1,
\* is min(RETRY_MIN_WAIT * 2^(k-1), RETRY_MAX_WAIT): RETRY_MIN_WAIT after the
\* first attempt, never shorter than the wait before it and never longer
\* than RETRY_MAX_WAIT; the invocation makes attempt k + 1 no sooner than
\* that after attempt k failed; no wait follows attempt MAX_RETRIES.
C25_BackoffExponentialCapped ==
  /\ [](\A t \in Threads :
          /\ frame[t].waits <= MAX_RETRIES - 1
          /\ frame[t].waits <= Len(frame[t].outcomes)
          /\ (frame[t].pc = "await" /\ frame[t].attempt_number > 1) =>
               last_request.gap >= Min(RETRY_MIN_WAIT * Pow2(frame[t].attempt_number - 2),
                                       LongAgo))
  /\ [][\A t \in Threads : \A k \in 1..MAX_RETRIES :
          BackoffBegins(t, k) =>
            /\ k < MAX_RETRIES
            /\ frame'[t].sleep_left = Min(RETRY_MIN_WAIT * Pow2(k - 1), RETRY_MAX_WAIT)
            /\ k = 1 => frame'[t].sleep_left = RETRY_MIN_WAIT
            /\ frame'[t].sleep_left <= RETRY_MAX_WAIT
            /\ k > 1 => frame'[t].sleep_left >= Min(RETRY_MIN_WAIT * Pow2(k - 2), RETRY_MAX_WAIT)
            /\ frame'[t].waits = k]_vars

\* the second backoff wait of an invocation has begun: twice RETRY_MIN_WAIT
C25_Witness ==
  /\ frame[1].pc = "backoff"
  /\ frame[1].attempt_number = 2
  /\ frame[1].waits = 2
  /\ frame[1].sleep_left = 2 * RETRY_MIN_WAIT

\* C26: when two threads call api_get while no open client exists, the pool
\* stays single in every interleaving of their get_http_client steps: two
\* threads that hold open clients hold the same one, and every client that
\* was created but is not the current one has been closed (none is
\* orphaned).
C26_SingleSharedClient ==
  /\ created <= Cardinality(closed) + 1
  /\ \A t, u \in Threads :
       (/\ frame[t].pc \in {"send", "await"} /\ frame[t].client \notin closed
        /\ frame[u].pc \in {"send", "await"} /\ frame[u].client \notin closed)
         => frame[t].client = frame[u].client

\* C23: the held page, app_state["search_results"], is always the page as it
\* was constructed from the answer to the latest successful request: the
\* derived operations all_jobs, total_results, is_success and
\* get_remote_jobs, a request that fails and the drawing of the view leave
\* its data, premiumData and common as they are, and a successful re-query
\* puts the newly constructed page in its place, with none of the old
\* page's listings.
C23_HeldPageReplacedWhole ==
  /\ [](app_state.held =>
          /\ app_state.search_results = SearchResults(held_request.body)
          /\ lib_call.fn = "held_page" =>
               Len(lib_call.all_jobs) = lib_call.total_results)
  /\ [][(search_thread.pc = "search_jobs" /\ search_thread'.pc = "update_ui") =>
          /\ app_state'.held
          /\ app_state'.search_results = frame[1].result.page
          /\ app_state'.search_results = SearchResults(frame[1].response.body)]_vars
  /\ [][(app_state.held /\ search_thread'.pc # "update_ui") =>
          app_state'.search_results = app_state.search_results]_vars

\* page 2 of a search was stored in place of page 1 and drawn; the derived
\* operations were called on a held page
C23_Witness ==
  /\ app_state.held
  /\ held_request.page = 2
  /\ results_view.drawn /\ results_view.current_page = 2
  /\ app_state.search_results = SearchResults(PageOfOne)
  /\ lib_call.fn = "held_page"
  /\ lib_call.get_remote_jobs # <<>>

\* C28 as claimed: whenever no request is under way, current_page and
\* search_params are the page number and the filters of the request that
\* produced the held page, and are as at the start while no page is held: a
\* request that fails changes none of search_results, current_page and
\* search_params.
C28_StateIsThatOfHeldPage ==
  search_thread.pc = "none" =>
    IF app_state.held
      THEN /\ app_state.current_page = held_request.page
           /\ app_state.search_params = held_request.params
      ELSE /\ app_state.current_page = InitialAppState.current_page
           /\ app_state.search_params = InitialAppState.search_params

\* C29 as claimed: a listing whose latest operation is a save that succeeded
\* has exactly one row, with the id its earlier saves returned, and the row
\* is active: it is in the saved-jobs list and in the saved-jobs count.
C29_SavedIsStoredOnceAndActive ==
  \A external_id \in ExternalIds :
    (latest[external_id].op = "save" /\ latest[external_id].ok) =>
      LET rows == {i \in 1..Len(jobs) : jobs[i].external_id = external_id}
      IN /\ Cardinality(rows) = 1
         /\ \A i \in rows :
              /\ jobs[i].id = latest[external_id].id
              /\ jobs[i].id = latest[external_id].first_id
              /\ jobs[i].is_active
              /\ \E k \in 1..Len(SavedJobs) : SavedJobs[k] = jobs[i]

====
